---------------------------- MODULE Spec2Model ----------------------------
(***************************************************************************)
(* A model of the SX127x LoRa driver of src/lora_optimized.py (class LoRa) *)
(* together with the register-level behaviour of the chip it drives.       *)
(*                                                                         *)
(* The chip is a register file `regs` (address -> byte), a 256 byte packet *)
(* buffer `fifo` addressed through the cursor register FIFO_ADDR_PTR, and  *)
(* a transmitter that is busy or idle.  The driver is the configuration    *)
(* dictionary `cfg` (self._config) and the position `pc` of the call that  *)
(* runs in the main context.  Every driver method is a pure operator on a  *)
(* call state s = [cfg, regs, fifo, tx, nw, raised, reads, log]: nw counts *)
(* the register writes of the call and log lists them, reads counts the    *)
(* reads of the identity register, raised says that the call has raised an *)
(* exception, after which the rest of the method has no effect.            *)
(*                                                                         *)
(* Time: `now` is time.ticks_ms().  It advances only in sleep_ms(10), by   *)
(* exactly 10; register transfers take no time.  One pass of a wait loop   *)
(* (end_packet, receive_message) and one run of the interrupt handler are  *)
(* one step each; the chip's events (TX_DONE raised, a frame received)     *)
(* happen between those steps.  IRQ flags are sticky: a flag stays set     *)
(* until the driver writes a 1 to its bit.                                 *)
(***************************************************************************)
EXTENDS Integers, Sequences, FiniteSets, TLC

VARIABLES
    cfg,        \* self._config
    want,       \* history: per parameter, the last value passed to its setter, clamped to its range
    regs,       \* chip registers, address -> byte (the FIFO window excepted)
    fifo,       \* chip packet buffer, offset -> byte, over the offsets written so far
    chipTx,     \* the chip is transmitting a packet
    pc,         \* "new" before construction, "idle" between calls, else the position inside a blocking call
    now,        \* time.ticks_ms()
    start_time, \* local of end_packet / receive_message
    timeout,    \* argument of the blocking call in progress
    call,       \* the blocking call in progress: "end_packet", "send", "receive_message", or "none"
    writes,     \* history: the register writes made so far by the blocking call in progress
    packet,     \* history: whether begin_packet has been called, and the bytes accepted by write_packet since
    rx,         \* the receive side: armed (the pin's handler is attached), callback (self._on_recv
                \* is set), pending (the handler is scheduled to run), flags (the local irq_flags of
                \* receive_message), and history: raised (a handler run
                \* raised), frames (what the chip received, in order), delivered (the payloads the
                \* callback was given), dropped (the receive_message in progress has dropped a frame for
                \* its CRC), goodAt (how long after start_time the first valid frame after that
                \* drop completed, -1 if none has)
    txDoneAt,   \* history: how long after start_time the chip raised TX_DONE during the wait in progress, -1 if it has not
    bus,        \* the SPI bus: cs (level of the chip-select line), ptr / w (the register address and
                \* direction the chip has latched in the current selection, ptr = -1 if none), stage
                \* (position of the main context inside _transfer), op / addr / value (that transfer),
                \* and history: wire (the chip-select edges and bytes since that transfer began)
    tbeam,      \* the TBeam node on top of the driver: received_messages (self.received_messages),
                \* last_send_time, and history: accepted (how many messages the receive callback
                \* has put in the buffer so far), added (the messages put in the buffer since it
                \* was last emptied), asked / returned (what added was when the get_messages that
                \* just ended was called, and what it returned)
    last        \* history: the last driver call that ended: op, arguments, outcome, number of register
                \* writes (of a setter that returned only op = "setter" is kept: cfg holds what it was given)

vars ==
    <<cfg, want, regs, fifo, chipTx, pc, now, start_time, timeout, call, writes, packet, rx,
      txDoneAt, bus, tbeam, last>>

waitVars == <<now, start_time, timeout, call, writes, txDoneAt>>

---------------------------------------------------------------------------
(* class Registers *)
FIFO == 0
OP_MODE == 1
FRF_MSB == 6
FRF_MID == 7
FRF_LSB == 8
PA_CONFIG == 9
LNA == 12
FIFO_ADDR_PTR == 13
FIFO_TX_BASE_ADDR == 14
FIFO_RX_BASE_ADDR == 15
FIFO_RX_CURRENT_ADDR == 16
IRQ_FLAGS == 18
RX_NB_BYTES == 19
PKT_RSSI_VALUE == 26
PKT_SNR_VALUE == 27
MODEM_CONFIG_1 == 29
MODEM_CONFIG_2 == 30
PREAMBLE_MSB == 32
PREAMBLE_LSB == 33
PAYLOAD_LENGTH == 34
MODEM_CONFIG_3 == 38
DETECTION_OPTIMIZE == 49
DETECTION_THRESHOLD == 55
SYNC_WORD == 57
DIO_MAPPING_1 == 64
VERSION == 66
PA_DAC == 77

RegAddrs ==
    { OP_MODE, FRF_MSB, FRF_MID, FRF_LSB, PA_CONFIG, LNA, FIFO_ADDR_PTR,
      FIFO_TX_BASE_ADDR, FIFO_RX_BASE_ADDR, FIFO_RX_CURRENT_ADDR, IRQ_FLAGS,
      RX_NB_BYTES, PKT_RSSI_VALUE, PKT_SNR_VALUE, MODEM_CONFIG_1,
      MODEM_CONFIG_2, PREAMBLE_MSB, PREAMBLE_LSB, PAYLOAD_LENGTH,
      MODEM_CONFIG_3, DETECTION_OPTIMIZE, DETECTION_THRESHOLD, SYNC_WORD,
      DIO_MAPPING_1, VERSION, PA_DAC }

(* class Modes *)
SLEEP == 0
STDBY == 1
TX == 3
RX_CONTINUOUS == 5
LORA_MASK == 128

(* class IRQFlags *)
TX_DONE == 8
PAYLOAD_CRC_ERROR == 32
RX_DONE == 64

(* class PAConfig *)
RFO_PIN == 0
BOOST_PIN == 1
PA_BOOST == 128

(* class Config *)
MAX_PKT_LENGTH == 255
TX_BASE_ADDR == 0
RX_BASE_ADDR == 0
SX127X_VERSION == 18

BANDWIDTHS == <<7800, 10400, 15600, 20800, 31250, 41700, 62500, 125000, 250000>>

(* Config.DEFAULT; the frequency is counted in units of 10 kHz (915.0 MHz = 91500) *)
DEFAULT ==
    [ frequency |-> 91500, bandwidth |-> 250000, spreading_factor |-> 10,
      coding_rate |-> 5, preamble_length |-> 8, tx_power |-> 17,
      crc |-> FALSE, implicit |-> FALSE, sync_word |-> 18,
      output_pin |-> BOOST_PIN ]

---------------------------------------------------------------------------
(* Python's integer operators: &, |, ~ on unbounded two's complement integers *)

RECURSIVE AndN(_, _)
AndN(a, b) ==
    IF a = 0 \/ b = 0 THEN 0
    ELSE (a % 2) * (b % 2) + 2 * AndN(a \div 2, b \div 2)

Inv(a) == -1 - a

OrN(a, b) == a + b - AndN(a, b)

And(a, b) ==
    IF a >= 0 /\ b >= 0 THEN AndN(a, b)
    ELSE IF a >= 0 THEN a - AndN(a, Inv(b))
    ELSE IF b >= 0 THEN b - AndN(b, Inv(a))
    ELSE Inv(OrN(Inv(a), Inv(b)))

Or(a, b) ==
    IF a >= 0 /\ b >= 0 THEN OrN(a, b)
    ELSE IF a >= 0 THEN Inv(Inv(b) - AndN(Inv(b), a))
    ELSE IF b >= 0 THEN Inv(Inv(a) - AndN(Inv(a), b))
    ELSE Inv(AndN(Inv(a), Inv(b)))

Shl(a, n) == a * (2 ^ n)
Shr(a, n) == a \div (2 ^ n)

Min(a, b) == IF a < b THEN a ELSE b
Max(a, b) == IF a > b THEN a ELSE b

---------------------------------------------------------------------------
(* The packet buffer: 256 bytes, kept as a function over the offsets that  *)
(* have been written; a byte never written reads as 0.                     *)
FifoGet(f, i) == IF i \in DOMAIN f THEN f[i] ELSE 0

FifoPut(f, i, value) ==
    (i :> value) @@ f

(* The chip's side of one register write.  A write to the FIFO window      *)
(* stores the byte at the cursor and advances the cursor; a write to the   *)
(* IRQ flag register clears the flags whose bit is written as 1; a write   *)
(* of transmit mode starts a transmission and any other mode ends one.     *)
ChipWrite(s, addr, value) ==
    IF addr = FIFO THEN
        [s EXCEPT !.fifo = FifoPut(@, s.regs[FIFO_ADDR_PTR], value),
                  !.regs[FIFO_ADDR_PTR] = (@ + 1) % 256]
    ELSE IF addr = IRQ_FLAGS THEN
        [s EXCEPT !.regs[IRQ_FLAGS] = And(@, 255 - value)]
    ELSE IF addr = OP_MODE THEN
        [s EXCEPT !.regs[OP_MODE] = value,
                  !.tx = (And(value, 7) = TX)]
    ELSE
        [s EXCEPT !.regs[addr] = value]

(* LoRa._write with LoRa._transfer: bytes([value]) raises ValueError for a *)
(* value outside 0..255, before the value byte reaches the chip.  s.log is *)
(* the register writes the chip has taken, each as the address byte and    *)
(* the value byte sent.                                                    *)
_write(s, addr, value) ==
    IF s.raised THEN s
    ELSE IF value \notin 0..255 THEN [s EXCEPT !.raised = TRUE]
    ELSE ChipWrite([s EXCEPT !.nw = @ + 1, !.log = Append(@, <<Or(addr, 128), value>>)],
                   And(Or(addr, 128), 127), value)

(* LoRa._read of a register other than the FIFO window *)
_read(s, addr) == s.regs[And(addr, 127)]

(* self._config[key] = value *)
store(s, key, value) ==
    IF s.raised THEN s ELSE [s EXCEPT !.cfg[key] = value]

(* raise ValueError(...) *)
raise(s) == [s EXCEPT !.raised = TRUE]

_set_mode(s, mode) == _write(s, OP_MODE, Or(LORA_MASK, mode))
standby(s) == _set_mode(s, STDBY)
sleep(s) == _set_mode(s, SLEEP)
recv(s) == _set_mode(s, RX_CONTINUOUS)

---------------------------------------------------------------------------
(* Modem Configuration Engine: the setters of LoRa *)

set_frequency(s, frequency) ==
    LET s1 == store(s, "frequency", frequency)
        \* int(frequency * 1000000.0 / 61.03515625), frequency = f10k / 100 MHz
        frf == (frequency * 4096) \div 25
        s2 == _write(s1, FRF_MSB, And(Shr(frf, 16), 255))
        s3 == _write(s2, FRF_MID, And(Shr(frf, 8), 255))
    IN  _write(s3, FRF_LSB, And(frf, 255))

(* bw_index with the table entry required to exceed bw *)
bw_index_Strict(bw) ==
    LET hits == {i \in 1..Len(BANDWIDTHS) : bw < BANDWIDTHS[i]}
    IN  IF hits = {} THEN 9
        ELSE (CHOOSE i \in hits : \A j \in hits : i <= j) - 1

(* for i, bandwidth in enumerate(BANDWIDTHS): if bw <= bandwidth: bw_index = i; break *)
bw_index(bw) ==
    LET hits == {i \in 1..Len(BANDWIDTHS) : bw <= BANDWIDTHS[i]}
    IN  IF hits = {} THEN 9
        ELSE (CHOOSE i \in hits : \A j \in hits : i <= j) - 1

(* set_bandwidth without the update of MODEM_CONFIG_3 *)
set_bandwidth_KeepLdo(s, bw) ==
    LET s1 == store(s, "bandwidth", bw)
        reg_value == And(_read(s1, MODEM_CONFIG_1), 15)
    IN  _write(s1, MODEM_CONFIG_1, Or(reg_value, Shl(bw_index(bw), 4)))

set_bandwidth(s, bw) ==
    LET s1 == store(s, "bandwidth", bw)
        reg_value == And(_read(s1, MODEM_CONFIG_1), 15)
        s2 == _write(s1, MODEM_CONFIG_1, Or(reg_value, Shl(bw_index(bw), 4)))
        sf == s2.cfg.spreading_factor
    IN  IF sf > 10 /\ bw < 250000
        THEN _write(s2, MODEM_CONFIG_3, 8)
        ELSE _write(s2, MODEM_CONFIG_3, 4)

(* set_spreading_factor with the value stored before the range check *)
set_spreading_factor_StoreFirst(s, sf) ==
    LET s1 == store(s, "spreading_factor", sf)
    IN  IF sf < 6 \/ sf > 12 THEN raise(s1)
        ELSE
        LET s2 == _write(s1, DETECTION_OPTIMIZE, IF sf = 6 THEN 197 ELSE 195)
            s3 == _write(s2, DETECTION_THRESHOLD, IF sf = 6 THEN 12 ELSE 10)
            reg2 == _read(s3, MODEM_CONFIG_2)
            s4 == _write(s3, MODEM_CONFIG_2, Or(And(reg2, 15), And(Shl(sf, 4), 240)))
            bw == s4.cfg.bandwidth
        IN  IF sf > 10 /\ bw < 250000
            THEN _write(s4, MODEM_CONFIG_3, 8)
            ELSE _write(s4, MODEM_CONFIG_3, 4)

(* set_spreading_factor with the detection constants of SF7..12 for every sf *)
set_spreading_factor_NoSf6(s, sf) ==
    IF sf < 6 \/ sf > 12 THEN raise(s)
    ELSE
    LET s1 == store(s, "spreading_factor", sf)
        s2 == _write(s1, DETECTION_OPTIMIZE, 195)
        s3 == _write(s2, DETECTION_THRESHOLD, 10)
        reg2 == _read(s3, MODEM_CONFIG_2)
        s4 == _write(s3, MODEM_CONFIG_2, Or(And(reg2, 15), And(Shl(sf, 4), 240)))
        bw == s4.cfg.bandwidth
    IN  IF sf > 10 /\ bw < 250000
        THEN _write(s4, MODEM_CONFIG_3, 8)
        ELSE _write(s4, MODEM_CONFIG_3, 4)

set_spreading_factor(s, sf) ==
    IF sf < 6 \/ sf > 12 THEN raise(s)
    ELSE
    LET s1 == store(s, "spreading_factor", sf)
        s2 == _write(s1, DETECTION_OPTIMIZE, IF sf = 6 THEN 197 ELSE 195)
        s3 == _write(s2, DETECTION_THRESHOLD, IF sf = 6 THEN 12 ELSE 10)
        reg2 == _read(s3, MODEM_CONFIG_2)
        s4 == _write(s3, MODEM_CONFIG_2, Or(And(reg2, 15), And(Shl(sf, 4), 240)))
        bw == s4.cfg.bandwidth
    IN  IF sf > 10 /\ bw < 250000
        THEN _write(s4, MODEM_CONFIG_3, 8)
        ELSE _write(s4, MODEM_CONFIG_3, 4)

(* set_coding_rate without the clamp *)
set_coding_rate_NoClamp(s, denom) ==
    LET s1 == store(s, "coding_rate", denom)
        reg1 == _read(s1, MODEM_CONFIG_1)
    IN  _write(s1, MODEM_CONFIG_1, Or(And(reg1, 241), Shl(denom - 4, 1)))

set_coding_rate(s, denom) ==
    LET d == Min(Max(denom, 5), 8)
        s1 == store(s, "coding_rate", d)
        cr == d - 4
        reg1 == _read(s1, MODEM_CONFIG_1)
    IN  _write(s1, MODEM_CONFIG_1, Or(And(reg1, 241), Shl(cr, 1)))

set_preamble_length(s, length) ==
    LET l == Max(6, Min(length, 65535))
        s1 == store(s, "preamble_length", l)
        s2 == _write(s1, PREAMBLE_MSB, And(Shr(l, 8), 255))
    IN  _write(s2, PREAMBLE_LSB, And(l, 255))

(* set_crc writing only the CRC bit *)
set_crc_Overwrite(s, crc) ==
    _write(store(s, "crc", crc), MODEM_CONFIG_2, IF crc THEN 4 ELSE 0)

set_crc(s, crc) ==
    LET s1 == store(s, "crc", crc)
        reg == _read(s1, MODEM_CONFIG_2)
    IN  _write(s1, MODEM_CONFIG_2, IF crc THEN Or(reg, 4) ELSE And(reg, 251))

set_sync_word(s, sw) ==
    _write(store(s, "sync_word", sw), SYNC_WORD, sw)

set_implicit(s, implicit) ==
    LET s1 == store(s, "implicit", implicit)
        reg == _read(s1, MODEM_CONFIG_1)
    IN  _write(s1, MODEM_CONFIG_1, IF implicit THEN Or(reg, 1) ELSE And(reg, 254))

(* Power Amplifier Controller *)

(* set_tx_power with the full high-power pattern from level 19 on *)
set_tx_power_Full19(s, level, output_pin) ==
    LET s1 == store(store(s, "tx_power", level), "output_pin", output_pin)
    IN  IF output_pin = RFO_PIN THEN
            _write(s1, PA_CONFIG, Or(112, Min(Max(level, 0), 14)))
        ELSE IF level > 17 THEN
            LET s2 == IF level > 18
                      THEN _write(s1, PA_DAC, Or(_read(s1, PA_DAC), 7))
                      ELSE _write(s1, PA_DAC, Or(And(_read(s1, PA_DAC), Inv(7)), 4))
            IN  _write(s2, PA_CONFIG, Or(PA_BOOST, 15))
        ELSE
            LET s2 == _write(s1, PA_DAC, And(_read(s1, PA_DAC), Inv(7)))
            IN  _write(s2, PA_CONFIG, Or(PA_BOOST, level - 2))

set_tx_power(s, level, output_pin) ==
    LET s1 == store(store(s, "tx_power", level), "output_pin", output_pin)
    IN  IF output_pin = RFO_PIN THEN
            _write(s1, PA_CONFIG, Or(112, Min(Max(level, 0), 14)))
        ELSE IF level > 17 THEN
            LET s2 == IF level > 19
                      THEN _write(s1, PA_DAC, Or(_read(s1, PA_DAC), 7))
                      ELSE _write(s1, PA_DAC, Or(And(_read(s1, PA_DAC), Inv(7)), 4))
            IN  _write(s2, PA_CONFIG, Or(PA_BOOST, 15))
        ELSE
            LET s2 == _write(s1, PA_DAC, And(_read(s1, PA_DAC), Inv(7)))
            IN  _write(s2, PA_CONFIG, Or(PA_BOOST, level - 2))

---------------------------------------------------------------------------
(* Construction *)

(* LoRa._init_config: every key of DEFAULT, overridden by the keyword arguments *)
_init_config(s, kwargs) == [s EXCEPT !.cfg = kwargs]

(* The steps of _configure_radio: each applies one value of self._config *)
configure_frequency(s) == set_frequency(s, s.cfg.frequency)
configure_bandwidth(s) == set_bandwidth(s, s.cfg.bandwidth)
configure_spreading_factor(s) == set_spreading_factor(s, s.cfg.spreading_factor)
configure_coding_rate(s) == set_coding_rate(s, s.cfg.coding_rate)
configure_preamble_length(s) == set_preamble_length(s, s.cfg.preamble_length)
configure_crc(s) == set_crc(s, s.cfg.crc)
configure_sync_word(s) == set_sync_word(s, s.cfg.sync_word)
configure_implicit(s) == set_implicit(s, s.cfg.implicit)
configure_lna(s) == _write(s, LNA, Or(_read(s, LNA), 3))
configure_agc(s) == _write(s, MODEM_CONFIG_3, 4)
configure_tx_power(s) == set_tx_power(s, s.cfg.tx_power, s.cfg.output_pin)

configure_base_addr(s) ==
    _write(_write(s, FIFO_TX_BASE_ADDR, TX_BASE_ADDR), FIFO_RX_BASE_ADDR, RX_BASE_ADDR)

configure_modem(s) ==
    configure_implicit(configure_sync_word(configure_crc(configure_preamble_length(
        configure_coding_rate(configure_spreading_factor(configure_bandwidth(
            configure_frequency(s))))))))

_configure_radio(s) ==
    configure_tx_power(configure_agc(configure_lna(configure_modem(configure_base_addr(s)))))

(* time.sleep_ms(100) between two reads of the identity register *)
RETRY_MS == 100

(* The while loop of _verify_chip_version.  ids[k] is what the k-th read   *)
(* of the identity register returns; s.reads counts the reads made.        *)
RECURSIVE verify_retry_SixRetries(_, _, _, _)
verify_retry_SixRetries(s, ids, version, attempts) ==
    IF version # SX127X_VERSION /\ attempts < 6
    THEN verify_retry_SixRetries([s EXCEPT !.reads = @ + 1], ids, ids[s.reads + 1], attempts + 1)
    ELSE s

RECURSIVE verify_retry(_, _, _, _)
verify_retry(s, ids, version, attempts) ==
    IF version # SX127X_VERSION /\ attempts < 5
    THEN verify_retry([s EXCEPT !.reads = @ + 1], ids, ids[s.reads + 1], attempts + 1)
    ELSE s

(* _verify_chip_version raising when the identity still differs *)
_verify_chip_version_Fatal(s, ids) ==
    IF ids[verify_retry([s EXCEPT !.reads = 1], ids, ids[1], 0).reads] # SX127X_VERSION
    THEN raise(verify_retry([s EXCEPT !.reads = 1], ids, ids[1], 0))
    ELSE verify_retry([s EXCEPT !.reads = 1], ids, ids[1], 0)

(* After the loop a mismatch is only printed *)
_verify_chip_version(s, ids) ==
    verify_retry([s EXCEPT !.reads = 1], ids, ids[1], 0)

(* LoRa.__init__ configuring the radio before it puts it to sleep *)
construct_ConfigureAwake(s, kwargs, ids) ==
    standby(_set_mode(_configure_radio(
        _verify_chip_version(_init_config(s, kwargs), ids)), SLEEP))

(* LoRa.__init__ *)
construct(s, kwargs, ids) ==
    IF _verify_chip_version(_init_config(s, kwargs), ids).raised
    THEN _verify_chip_version(_init_config(s, kwargs), ids)
    ELSE standby(_configure_radio(_set_mode(
             _verify_chip_version(_init_config(s, kwargs), ids), SLEEP)))

---------------------------------------------------------------------------
(* Transmit Protocol *)

(* begin_packet without the reset of the payload length *)
begin_packet_KeepLength(s) ==
    _write(standby(s), FIFO_ADDR_PTR, TX_BASE_ADDR)

begin_packet(s) ==
    _write(_write(standby(s), FIFO_ADDR_PTR, TX_BASE_ADDR), PAYLOAD_LENGTH, 0)

(* for byte in data: self._write(Registers.FIFO, byte) *)
(* the bytes data[lo..hi] are written in order, the first half before the second *)
RECURSIVE write_bytes(_, _, _, _)
write_bytes(s, data, lo, hi) ==
    IF s.raised \/ lo > hi THEN s
    ELSE IF lo = hi THEN _write(s, FIFO, data[lo])
    ELSE write_bytes(write_bytes(s, data, lo, (lo + hi) \div 2), data, (lo + hi) \div 2 + 1, hi)

(* write_packet with the bytes written before the length is checked *)
write_packet_CheckLast(s, data) ==
    LET new_length == _read(s, PAYLOAD_LENGTH) + Len(data)
        s1 == write_bytes(s, data, 1, Len(data))
    IN  IF new_length > MAX_PKT_LENGTH THEN raise(s1)
        ELSE _write(s1, PAYLOAD_LENGTH, new_length)

(* data is a bytes object (a str is encoded to one first) *)
write_packet(s, data) ==
    LET new_length == _read(s, PAYLOAD_LENGTH) + Len(data)
    IN  IF new_length > MAX_PKT_LENGTH THEN raise(s)
        ELSE _write(write_bytes(s, data, 1, Len(data)), PAYLOAD_LENGTH, new_length)

(* One pass of the wait loop of end_packet, `elapsed` being                 *)
(* ticks_diff(ticks_ms(), start_time): the call returns True ("true"),      *)
(* returns False ("false"), or goes to sleep_ms(10) ("sleep").              *)
end_packet_poll_NoAck(s, elapsed, tmo) ==
    IF elapsed < tmo THEN
        IF And(_read(s, IRQ_FLAGS), TX_DONE) # 0
        THEN [s |-> s, to |-> "true"]
        ELSE [s |-> s, to |-> "sleep"]
    ELSE [s |-> s, to |-> "false"]

end_packet_poll_Revert(s, elapsed, tmo) ==
    IF elapsed < tmo THEN
        IF And(_read(s, IRQ_FLAGS), TX_DONE) # 0
        THEN [s |-> _write(s, IRQ_FLAGS, TX_DONE), to |-> "true"]
        ELSE [s |-> s, to |-> "sleep"]
    ELSE [s |-> standby(s), to |-> "false"]

end_packet_poll(s, elapsed, tmo) ==
    IF elapsed < tmo THEN
        IF And(_read(s, IRQ_FLAGS), TX_DONE) # 0
        THEN [s |-> _write(s, IRQ_FLAGS, TX_DONE), to |-> "true"]
        ELSE [s |-> s, to |-> "sleep"]
    ELSE [s |-> s, to |-> "false"]

(* end_packet up to the wait loop *)
end_packet_start(s) == _set_mode(s, TX)

(* send writing the bytes before write_packet checks the length *)
send_start_WriteFirst(s, data) ==
    end_packet_start(write_packet_CheckLast(begin_packet(s), data))

(* send up to the wait loop of end_packet *)
send_start(s, data) == end_packet_start(write_packet(begin_packet(s), data))

(* time.sleep_ms(10) of the wait loops *)
POLL_MS == 10

---------------------------------------------------------------------------
(* Receive Pipeline *)

(* for i in range(length): payload[i] = self._read(Registers.FIFO): each   *)
(* read of the FIFO window returns the byte at the cursor and advances it  *)
read_bytes(s, length) ==
    [i \in 1..length |-> FifoGet(s.fifo, (s.regs[FIFO_ADDR_PTR] + i - 1) % 256)]

(* _read_payload taking the length from PAYLOAD_LENGTH in both header modes *)
_read_payload_LengthRegister(s) ==
    LET s1 == _write(s, FIFO_ADDR_PTR, _read(s, FIFO_RX_CURRENT_ADDR))
        length == _read(s1, PAYLOAD_LENGTH)
    IN  [s |-> [s1 EXCEPT !.regs[FIFO_ADDR_PTR] = (@ + length) % 256],
         payload |-> read_bytes(s1, length)]

(* [s |-> state after the call, payload |-> bytes returned] *)
_read_payload(s) ==
    LET s1 == _write(s, FIFO_ADDR_PTR, _read(s, FIFO_RX_CURRENT_ADDR))
        length == IF s.cfg.implicit THEN _read(s1, PAYLOAD_LENGTH) ELSE _read(s1, RX_NB_BYTES)
    IN  [s |-> [s1 EXCEPT !.regs[FIFO_ADDR_PTR] = (@ + length) % 256],
         payload |-> read_bytes(s1, length)]

(* on_recv(callback) on a driver built with a receive pin, cb being whether *)
(* callback is set and attached whether the pin's handler was attached     *)
(* before the call, leaving the handler attached when callback is None     *)
on_recv_KeepHandler(s, cb, attached) ==
    [s |-> IF cb THEN _write(s, DIO_MAPPING_1, 0) ELSE s,
     callback |-> cb,
     attached |-> cb \/ attached]

(* on_recv(callback) on a driver built with a receive pin: callback is     *)
(* whether self._on_recv is set after the call, attached whether the pin   *)
(* has _irq_handler as its rising-edge handler after the call              *)
on_recv(s, cb, attached) ==
    [s |-> IF cb THEN _write(s, DIO_MAPPING_1, 0) ELSE s,
     callback |-> cb,
     attached |-> cb]

(* The handler acknowledging RX_DONE only *)
_irq_handler_AckRxDone(s, _on_recv) ==
    LET irq_flags == _read(s, IRQ_FLAGS)
        s1 == _write(s, IRQ_FLAGS, RX_DONE)
    IN  IF And(irq_flags, RX_DONE) # 0 /\ And(irq_flags, PAYLOAD_CRC_ERROR) = 0
        THEN [s |-> _read_payload(s1).s, called |-> _on_recv, payload |-> _read_payload(s1).payload]
        ELSE [s |-> s1, called |-> FALSE, payload |-> <<>>]

(* One run of the handler; called: the callback was invoked with payload.  *)
(* _on_recv is whether self._on_recv is set.                               *)
_irq_handler(s, _on_recv) ==
    LET irq_flags == _read(s, IRQ_FLAGS)
        s1 == _write(s, IRQ_FLAGS, irq_flags)
    IN  IF And(irq_flags, RX_DONE) # 0 /\ And(irq_flags, PAYLOAD_CRC_ERROR) = 0
        THEN [s |-> _read_payload(s1).s, called |-> _on_recv, payload |-> _read_payload(s1).payload]
        ELSE [s |-> s1, called |-> FALSE, payload |-> <<>>]

(* receive_message up to the wait loop *)
receive_message_start(s) == recv(s)

(* The end of one pass of the wait loop of receive_message that has not    *)
(* returned: sleep_ms(10) if timeout > 0, else straight to the next pass   *)
receive_message_next(s, tmo, irq_flags, dropped) ==
    [s |-> s, to |-> IF tmo > 0 THEN "sleep" ELSE "again", payload |-> <<>>,
     flags |-> irq_flags, dropped |-> dropped]

(* receive_message returning the payload whatever the CRC flag *)
receive_message_poll_NoCrc(s, elapsed, tmo) ==
    LET irq_flags == _read(s, IRQ_FLAGS)
    IN  IF tmo = 0 \/ elapsed < tmo THEN
            IF And(irq_flags, RX_DONE) # 0 THEN
                [s |-> _read_payload(_write(s, IRQ_FLAGS, RX_DONE)).s, to |-> "payload",
                 payload |-> _read_payload(_write(s, IRQ_FLAGS, RX_DONE)).payload,
                 flags |-> irq_flags, dropped |-> FALSE]
            ELSE receive_message_next(s, tmo, irq_flags, FALSE)
        ELSE [s |-> s, to |-> "none", payload |-> <<>>, flags |-> 0, dropped |-> FALSE]

(* receive_message without the `timeout == 0 or` of the loop condition *)
receive_message_poll_ZeroExpires(s, elapsed, tmo) ==
    LET irq_flags == _read(s, IRQ_FLAGS)
    IN  IF elapsed < tmo THEN
            IF And(irq_flags, RX_DONE) # 0 THEN
                IF And(irq_flags, PAYLOAD_CRC_ERROR) = 0 THEN
                    [s |-> _read_payload(_write(s, IRQ_FLAGS, RX_DONE)).s, to |-> "payload",
                     payload |-> _read_payload(_write(s, IRQ_FLAGS, RX_DONE)).payload,
                     flags |-> irq_flags, dropped |-> FALSE]
                ELSE receive_message_next(_write(s, IRQ_FLAGS, RX_DONE), tmo, irq_flags, TRUE)
            ELSE receive_message_next(s, tmo, irq_flags, FALSE)
        ELSE [s |-> s, to |-> "none", payload |-> <<>>, flags |-> 0, dropped |-> FALSE]

(* receive_message with the elapsed time tested against twice the timeout *)
receive_message_poll_Late(s, elapsed, tmo) ==
    LET irq_flags == _read(s, IRQ_FLAGS)
    IN  IF tmo = 0 \/ elapsed < 2 * tmo THEN
            IF And(irq_flags, RX_DONE) # 0 THEN
                IF And(irq_flags, PAYLOAD_CRC_ERROR) = 0 THEN
                    [s |-> _read_payload(_write(s, IRQ_FLAGS, RX_DONE)).s, to |-> "payload",
                     payload |-> _read_payload(_write(s, IRQ_FLAGS, RX_DONE)).payload,
                     flags |-> irq_flags, dropped |-> FALSE]
                ELSE receive_message_next(_write(s, IRQ_FLAGS, RX_DONE), tmo, irq_flags, TRUE)
            ELSE receive_message_next(s, tmo, irq_flags, FALSE)
        ELSE [s |-> s, to |-> "none", payload |-> <<>>, flags |-> 0, dropped |-> FALSE]

(* A pass of the wait loop of receive_message from the value it has read   *)
(* from IRQ_FLAGS on                                                       *)
receive_message_pass(s, irq_flags, tmo) ==
    IF And(irq_flags, RX_DONE) # 0 THEN
        IF And(irq_flags, PAYLOAD_CRC_ERROR) = 0 THEN
            [s |-> _read_payload(_write(s, IRQ_FLAGS, RX_DONE)).s, to |-> "payload",
             payload |-> _read_payload(_write(s, IRQ_FLAGS, RX_DONE)).payload,
             flags |-> irq_flags, dropped |-> FALSE]
        ELSE receive_message_next(_write(s, IRQ_FLAGS, RX_DONE), tmo, irq_flags, TRUE)
    ELSE receive_message_next(s, tmo, irq_flags, FALSE)

(* One pass of the wait loop of receive_message, `elapsed` being           *)
(* ticks_diff(ticks_ms(), start_time): the call returns the payload        *)
(* ("payload"), returns None ("none"), or goes on to the next pass; flags  *)
(* is the value read from IRQ_FLAGS, dropped whether the pass dropped a    *)
(* frame for its CRC.                                                      *)
receive_message_poll(s, elapsed, tmo) ==
    IF tmo = 0 \/ elapsed < tmo
    THEN receive_message_pass(s, _read(s, IRQ_FLAGS), tmo)
    ELSE [s |-> s, to |-> "none", payload |-> <<>>, flags |-> 0, dropped |-> FALSE]

---------------------------------------------------------------------------
(* Bus Transfer Primitive: LoRa._transfer byte by byte.  A bus state b has *)
(* the chip (regs, fifo, tx), the chip-select level cs, the address ptr    *)
(* and direction w the chip has latched since chip-select fell (ptr = -1:  *)
(* none yet), the byte resp last clocked in, and the history wire.  The    *)
(* chip takes the first byte of a selection as the address and every       *)
(* further byte as data for the next register (burst access; the FIFO      *)
(* window does not advance the address); it ignores bytes sent while       *)
(* chip-select is high.                                                    *)

(* Registers the chip does not let the bus write *)
ReadOnly == {FIFO_RX_CURRENT_ADDR, RX_NB_BYTES, PKT_RSSI_VALUE, PKT_SNR_VALUE, VERSION}

(* self.cs.value(v) *)
cs_value(b, v) ==
    [b EXCEPT !.cs = v,
              !.ptr = IF v = 1 \/ b.cs = 1 THEN -1 ELSE @,
              !.wire = Append(@, <<"cs", v>>)]

(* The chip's side of a data byte of a read access *)
ChipRead(b, addr) ==
    IF addr = FIFO THEN
        [b EXCEPT !.resp = FifoGet(b.fifo, b.regs[FIFO_ADDR_PTR]),
                  !.regs[FIFO_ADDR_PTR] = (@ + 1) % 256]
    ELSE [b EXCEPT !.resp = IF addr \in RegAddrs THEN b.regs[addr] ELSE 0]

(* self.spi.write(bytes([byte])) / self.spi.write_readinto(bytes([byte]), resp) *)
spi_byte(b, byte) ==
    LET sent == [b EXCEPT !.wire = Append(@, <<"tx", byte>>), !.resp = 0]
        next == IF b.ptr = FIFO THEN FIFO ELSE (b.ptr + 1) % 128
    IN  IF b.cs = 1 THEN sent
        ELSE IF b.ptr = -1 THEN [sent EXCEPT !.ptr = byte % 128, !.w = (byte >= 128)]
        ELSE IF b.w THEN
            [(IF b.ptr \in (RegAddrs \cup {FIFO}) \ ReadOnly
              THEN ChipWrite(sent, b.ptr, byte) ELSE sent) EXCEPT !.ptr = next]
        ELSE [ChipRead(sent, b.ptr) EXCEPT !.ptr = next]

(* The end of _transfer without the try / finally: chip-select is released *)
(* only when the two bus calls returned                                    *)
transfer_release_NoFinally(b, failed) ==
    IF failed THEN b ELSE cs_value(b, 1)

(* finally: self.cs.value(1) *)
transfer_release(b, failed) ==
    cs_value(b, 1)

(* _transfer(addr, value) run without interruption, value being a byte *)
_transfer(b, addr, value) ==
    transfer_release(spi_byte(spi_byte(cs_value(b, 0), addr), value), FALSE)

(* The address byte _read and _write pass to _transfer *)
read_address(addr) == And(addr, 127)
write_address(addr) == Or(addr, 128)

(* for i in range(length): payload[i] = self._read(Registers.FIFO) *)
RECURSIVE read_fifo(_, _, _)
read_fifo(b, n, payload) ==
    IF n = 0 THEN [b |-> b, payload |-> payload]
    ELSE read_fifo(_transfer(b, read_address(FIFO), 0), n - 1,
                   Append(payload, _transfer(b, read_address(FIFO), 0).resp))

(* _read_payload, transfer by transfer *)
read_payload_transfers(b, implicit) ==
    LET b1 == _transfer(b, read_address(FIFO_RX_CURRENT_ADDR), 0)
        b2 == _transfer(b1, write_address(FIFO_ADDR_PTR), b1.resp)
        b3 == _transfer(b2, read_address(IF implicit THEN PAYLOAD_LENGTH ELSE RX_NB_BYTES), 0)
    IN  read_fifo(b3, b3.resp, <<>>)

(* _irq_handler, transfer by transfer *)
irq_handler_transfers(b, implicit, _on_recv) ==
    LET b1 == _transfer(b, read_address(IRQ_FLAGS), 0)
        irq_flags == b1.resp
        b2 == _transfer(b1, write_address(IRQ_FLAGS), irq_flags)
    IN  IF And(irq_flags, RX_DONE) # 0 /\ And(irq_flags, PAYLOAD_CRC_ERROR) = 0
        THEN [b |-> read_payload_transfers(b2, implicit).b, called |-> _on_recv,
              payload |-> read_payload_transfers(b2, implicit).payload]
        ELSE [b |-> b2, called |-> FALSE, payload |-> <<>>]

---------------------------------------------------------------------------
(* The values the calls are tried with *)
(* Frequencies in units of 10 kHz: the first FreqSteps + 1 channels of the *)
(* 433, 868 and 915 MHz bands, and the ends of the 24-bit range           *)
FreqSteps == 49
FreqInputs ==
    {0, 102399} \cup {base + k : base \in {43300, 86800, 91500}, k \in 0..FreqSteps}
BwInputs == {7800, 10400, 62500, 125000, 125001, 250000, 250001, 500000}
SfInputs == 5..13
CrInputs == 4..9
PreambleInputs == {5, 6, 8, 65535, 65536}
SyncInputs == {18, 52}
MaxLevel == 22
LevelInputs == -2..MaxLevel
PinInputs == {RFO_PIN, BOOST_PIN}

(* Payloads: one byte string per length, its bytes depending on the length *)
Data(n) == [i \in 1..n |-> (n + i) % 256]
DataLens == {0, 100, 155, 156, 256}
SendLens == {2, 256}
TimeoutInputs == {0, 25, 30}

RxTimeoutInputs == {0, 25}

(* What the identity register returns at its successive reads: the chip's *)
(* identity or something else, for the first MaxIdReads reads             *)
MaxIdReads == 7
IdAnswers == [1..MaxIdReads -> {SX127X_VERSION, 0}]
IdGood == [k \in 1..MaxIdReads |-> SX127X_VERSION]

(* The first read that returns the identity, 0 if none does *)
FirstMatch(ids) ==
    IF \A k \in DOMAIN ids : ids[k] # SX127X_VERSION THEN 0
    ELSE CHOOSE k \in DOMAIN ids :
             /\ ids[k] = SX127X_VERSION
             /\ \A j \in 1..(k - 1) : ids[j] # SX127X_VERSION

(* Overrides that no setter rejects *)
KwInit ==
    { [DEFAULT EXCEPT !.bandwidth = bw, !.spreading_factor = sf, !.output_pin = pin] :
        bw \in {125000, 250000}, sf \in 6..12, pin \in PinInputs }

(* The clock is not read past MaxClock: no blocking call starts that could *)
MaxClock == 100

(* The chip receives at most MaxFrames frames; frame k carries two bytes   *)
(* that tell it from every other frame and tell whether its CRC was valid  *)
MaxFrames == 3
Payload(k, ok) == <<k, 16 * k + (IF ok THEN 1 ELSE 0)>>

(* The keyword arguments construction is tried with: the defaults, with the *)
(* modem parameters overridden, or with the power parameters overridden.    *)
KwModem ==
    { [DEFAULT EXCEPT !.bandwidth = bw, !.spreading_factor = sf, !.coding_rate = d,
                      !.crc = c, !.implicit = i] :
        bw \in BwInputs, sf \in SfInputs, d \in CrInputs, c \in BOOLEAN, i \in BOOLEAN }

KwPower ==
    { [DEFAULT EXCEPT !.tx_power = level, !.output_pin = pin] :
        level \in LevelInputs, pin \in PinInputs }

(* The chip before the driver touches it: the registers the driver reads   *)
(* before it writes them hold bits of their own (LNA gain, the reserved    *)
(* bits of PA_DAC, the symbol-timeout bits of MODEM_CONFIG_2).             *)
ResetRegs ==
    [a \in RegAddrs |->
        CASE a = LNA -> 32
          [] a = PA_DAC -> 132
          [] a = MODEM_CONFIG_1 -> 114
          [] a = MODEM_CONFIG_2 -> 115
          [] a = PAYLOAD_LENGTH -> 1
          [] a = VERSION -> SX127X_VERSION
          [] OTHER -> 0]

ResetFifo == [i \in {} |-> 0]

(* A frame received in implicit-header mode has the number of bytes that   *)
(* PAYLOAD_LENGTH announces: the first is k, as in Payload                 *)
ImplicitPayload(k, ok, n) ==
    [i \in 1..n |-> IF i = 1 THEN k ELSE (16 * k + (IF ok THEN 1 ELSE 0) + i - 2) % 256]

NoCall ==
    [op |-> "none", arg |-> 0, arg2 |-> 0, raised |-> FALSE, nw |-> 0, ret |-> -1,
     payload |-> <<>>, irq |-> 0, log |-> <<>>]

(* No transfer in progress, chip-select high *)
NoBus ==
    [cs |-> 1, ptr |-> -1, w |-> FALSE, stage |-> "idle", op |-> "none", addr |-> 0, value |-> 0,
     wire |-> <<>>]

(* The node before any message: self.received_messages = [],             *)
(* self.last_send_time = 0                                                *)
NoTBeam ==
    [received_messages |-> <<>>, last_send_time |-> 0, accepted |-> 0, added |-> <<>>,
     asked |-> <<>>, returned |-> <<>>]

NoPacket == [begun |-> FALSE, bytes |-> <<>>]

(* armed: the pin's handler is attached; callback: self._on_recv is set;   *)
(* pending: the handler is scheduled; flags: the local irq_flags of        *)
(* receive_message                                                         *)
NoRx ==
    [armed |-> FALSE, callback |-> FALSE, pending |-> FALSE, raised |-> FALSE, frames |-> <<>>,
     delivered |-> <<>>, dropped |-> FALSE, goodAt |-> -1, flags |-> 0]

(* The state a call starts in, and the state it leaves behind *)
CallState ==
    [cfg |-> cfg, regs |-> regs, fifo |-> fifo, tx |-> chipTx, nw |-> 0, raised |-> FALSE,
     reads |-> 0, log |-> <<>>]

ApplyDriver(s) ==
    /\ bus' = bus
    /\ cfg' = s.cfg
    /\ regs' = s.regs
    /\ fifo' = s.fifo
    /\ chipTx' = s.tx

Apply(s) ==
    /\ ApplyDriver(s)
    /\ tbeam' = tbeam

(* ret is the value returned (-1 for None, 0 / 1 for False / True, else an int); *)
(* irq is the IRQ flag register as the call ends; log is kept for construction  *)
Finish(s, op, a1, a2, ret, payload) ==
    /\ Apply(s)
    /\ last' = [op |-> op, arg |-> a1, arg2 |-> a2, raised |-> s.raised,
                nw |-> IF op = "setter" THEN 0 ELSE s.nw, ret |-> ret, payload |-> payload,
                irq |-> s.regs[IRQ_FLAGS],
                log |-> IF op = "__init__" THEN s.log ELSE <<>>]

Clamp(v, lo, hi) == Min(Max(v, lo), hi)

(* What the last accepted value of each parameter is, clamped to its range *)
Clamped(kw) ==
    [kw EXCEPT !.coding_rate = Clamp(@, 5, 8),
               !.preamble_length = Clamp(@, 6, 65535),
               !.tx_power = IF kw.output_pin = RFO_PIN THEN Clamp(@, 0, 14) ELSE @]

---------------------------------------------------------------------------
(* The configuration calls, one action per method *)

(* LoRa(spi, cs=cs, rx=rx, **kwargs); last.arg is the number of reads of   *)
(* the identity register, last.arg2 the first read that returned 0x12      *)
Construct(Kw, Ids) ==
    /\ pc = "new"
    /\ UNCHANGED <<packet, rx>>
    /\ \E kwargs \in Kw, ids \in Ids :
        LET s == construct(CallState, kwargs, ids)
        IN  /\ Finish(s, "__init__", s.reads, FirstMatch(ids), -1, <<>>)
            /\ pc' = IF s.raised THEN "failed" ELSE "idle"
            /\ want' = IF s.raised THEN want ELSE Clamped(kwargs)
            /\ now' = now + RETRY_MS * (s.reads - 1)
    /\ UNCHANGED <<start_time, timeout, call, writes, txDoneAt>>

Setter(s, op, a1, a2, key, value) ==
    /\ pc = "idle"
    /\ UNCHANGED <<packet, rx>>
    /\ Finish(s, IF s.raised THEN op ELSE "setter", IF s.raised THEN a1 ELSE 0,
              IF s.raised THEN a2 ELSE 0, -1, <<>>)
    /\ want' = IF s.raised THEN want ELSE [want EXCEPT ![key] = value]
    /\ UNCHANGED <<pc, waitVars>>

B2I(b) == IF b THEN 1 ELSE 0

SetFrequency ==
    \E f \in FreqInputs :
        Setter(set_frequency(CallState, f), "set_frequency", f, 0, "frequency", f)

SetBandwidthOf(bw) ==
    Setter(set_bandwidth(CallState, bw), "set_bandwidth", bw, 0, "bandwidth", bw)

SetBandwidth == \E bw \in BwInputs : SetBandwidthOf(bw)

SetSpreadingFactorOf(sf) ==
    Setter(set_spreading_factor(CallState, sf), "set_spreading_factor", sf, 0,
           "spreading_factor", sf)

SetSpreadingFactor == \E sf \in SfInputs : SetSpreadingFactorOf(sf)

SetCodingRateOf(d) ==
    Setter(set_coding_rate(CallState, d), "set_coding_rate", d, 0,
           "coding_rate", Clamp(d, 5, 8))

SetCodingRate == \E d \in CrInputs : SetCodingRateOf(d)

SetPreambleLength ==
    \E l \in PreambleInputs :
        Setter(set_preamble_length(CallState, l), "set_preamble_length", l, 0,
               "preamble_length", Clamp(l, 6, 65535))

SetCrc ==
    \E c \in BOOLEAN :
        Setter(set_crc(CallState, c), "set_crc", B2I(c), 0, "crc", c)

SetSyncWord ==
    \E sw \in SyncInputs :
        Setter(set_sync_word(CallState, sw), "set_sync_word", sw, 0, "sync_word", sw)

SetImplicit ==
    \E i \in BOOLEAN :
        Setter(set_implicit(CallState, i), "set_implicit", B2I(i), 0, "implicit", i)

SetTxPowerOf(level, pin) ==
    LET s == set_tx_power(CallState, level, pin)
    IN  /\ pc = "idle"
        /\ UNCHANGED <<packet, rx>>
        /\ Finish(s, IF s.raised THEN "set_tx_power" ELSE "setter",
                  IF s.raised THEN level ELSE 0, IF s.raised THEN pin ELSE 0, -1, <<>>)
        /\ want' = IF s.raised THEN want
                   ELSE [want EXCEPT !.tx_power = IF pin = RFO_PIN THEN Clamp(level, 0, 14) ELSE level,
                                     !.output_pin = pin]
        /\ UNCHANGED <<pc, waitVars>>

SetTxPower == \E level \in LevelInputs, pin \in PinInputs : SetTxPowerOf(level, pin)

(* get_config(): self._config.copy() *)
get_config == cfg

InitCfg ==
    /\ cfg = DEFAULT
    /\ want = DEFAULT
    /\ regs = ResetRegs
    /\ fifo = ResetFifo
    /\ chipTx = FALSE
    /\ pc = "new"
    /\ now = 0
    /\ start_time = 0
    /\ timeout = 0
    /\ call = "none"
    /\ writes = 0
    /\ packet = NoPacket
    /\ rx = NoRx
    /\ txDoneAt = -1
    /\ bus = NoBus
    /\ tbeam = NoTBeam
    /\ last = NoCall

(* Construction and the setters of the modem control registers *)
ConstructModem == Construct(KwModem, {IdGood})

NextModem ==
    \/ ConstructModem
    \/ SetBandwidth
    \/ SetSpreadingFactor
    \/ SetCodingRate
    \/ SetCrc
    \/ SetImplicit

SpecModem == InitCfg /\ [][NextModem]_vars

(* Construction and the power amplifier setter *)
ConstructPower == Construct(KwPower, {IdGood})

NextPower ==
    \/ ConstructPower
    \/ SetTxPower

SpecPower == InitCfg /\ [][NextPower]_vars

(* Construction against a chip that answers the identity reads in any way *)
ConstructInit == Construct(KwInit, IdAnswers)

NextInit == ConstructInit

SpecInit == InitCfg /\ [][NextInit]_vars

---------------------------------------------------------------------------
(* The state after LoRa(spi, cs=cs, rx=rx) with the default configuration *)
Constructed ==
    construct([cfg |-> DEFAULT, regs |-> ResetRegs, fifo |-> ResetFifo, tx |-> FALSE,
               nw |-> 0, raised |-> FALSE, reads |-> 0, log |-> <<>>], DEFAULT, IdGood)

InitDriver ==
    /\ cfg = Constructed.cfg
    /\ want = Clamped(DEFAULT)
    /\ regs = Constructed.regs
    /\ fifo = Constructed.fifo
    /\ chipTx = Constructed.tx
    /\ pc = "idle"
    /\ now = 0
    /\ start_time = 0
    /\ timeout = 0
    /\ call = "none"
    /\ writes = 0
    /\ packet = NoPacket
    /\ rx = NoRx
    /\ txDoneAt = -1
    /\ bus = NoBus
    /\ tbeam = NoTBeam
    /\ last = NoCall

(* The transmit calls *)
BeginPacket ==
    /\ pc = "idle"
    /\ Finish(begin_packet(CallState), "begin_packet", 0, 0, -1, <<>>)
    /\ packet' = [begun |-> TRUE, bytes |-> <<>>]
    /\ UNCHANGED <<want, pc, waitVars, rx>>

WritePacketOf(n) ==
    LET s == write_packet(CallState, Data(n))
    IN  /\ pc = "idle"
        /\ Finish(s, "write_packet", n, 0, IF s.raised THEN -1 ELSE n, <<>>)
        /\ packet' = IF s.raised THEN packet ELSE [packet EXCEPT !.bytes = @ \o Data(n)]
        /\ UNCHANGED <<want, pc, waitVars, rx>>

WritePacket == \E n \in DataLens : WritePacketOf(n)

(* A blocking call enters its wait loop *)
StartWait(s, op, tmo) ==
    /\ Apply(s)
    /\ pc' = "tx_poll"
    /\ start_time' = now
    /\ timeout' = tmo
    /\ call' = op
    /\ writes' = s.nw
    /\ txDoneAt' = -1
    /\ UNCHANGED <<now, last>>

EndPacket ==
    \E tmo \in TimeoutInputs :
        /\ pc = "idle"
        /\ now + tmo + POLL_MS <= MaxClock
        /\ StartWait(end_packet_start(CallState), "end_packet", tmo)
        /\ UNCHANGED <<want, packet, rx>>

SendOf(n, tmo) ==
    LET s == send_start(CallState, Data(n))
    IN  /\ pc = "idle"
        /\ now + tmo + POLL_MS <= MaxClock
        /\ IF s.raised
           THEN /\ Finish(s, "send", n, tmo, -1, <<>>)
                /\ packet' = [begun |-> TRUE, bytes |-> <<>>]
                /\ UNCHANGED <<pc, waitVars>>
           ELSE /\ StartWait(s, "send", tmo)
                /\ packet' = [begun |-> TRUE, bytes |-> Data(n)]
        /\ UNCHANGED <<want, rx>>

Send == \E n \in SendLens, tmo \in TimeoutInputs : SendOf(n, tmo)

TxPoll ==
    LET r == end_packet_poll([CallState EXCEPT !.nw = writes], now - start_time, timeout)
    IN  /\ pc = "tx_poll"
        /\ IF r.to = "sleep"
           THEN /\ Apply(r.s)
                /\ pc' = "tx_sleep"
                /\ writes' = r.s.nw
                /\ UNCHANGED <<now, start_time, timeout, call, txDoneAt, last>>
           ELSE /\ Finish(r.s, call, 0, timeout, IF r.to = "true" THEN 1 ELSE 0, <<>>)
                /\ pc' = "idle"
                /\ call' = "none"
                /\ writes' = 0
                /\ UNCHANGED <<now, start_time, timeout, txDoneAt>>
        /\ UNCHANGED <<want, packet, rx>>

TxSleep ==
    /\ pc = "tx_sleep"
    /\ pc' = "tx_poll"
    /\ now' = now + POLL_MS
    /\ UNCHANGED <<cfg, want, regs, fifo, chipTx, start_time, timeout, call, writes, packet, rx,
                   txDoneAt, bus, tbeam, last>>

(* The chip ends the transmission that the last write of transmit mode      *)
(* started: it raises TX_DONE.  (It also falls back to standby by itself;   *)
(* regs[OP_MODE] keeps the mode the driver wrote last, which no code reads.) *)
ChipTxDone ==
    /\ chipTx
    /\ chipTx' = FALSE
    /\ regs' = [regs EXCEPT ![IRQ_FLAGS] = Or(@, TX_DONE)]
    /\ txDoneAt' = IF pc \in {"tx_poll", "tx_sleep"} /\ txDoneAt = -1
                   THEN now - start_time ELSE txDoneAt
    /\ UNCHANGED <<cfg, want, fifo, pc, now, start_time, timeout, call, writes, packet, rx, bus,
                   tbeam, last>>

(* begin_packet and write_packet over the packet buffer *)
NextFifo ==
    \/ BeginPacket
    \/ WritePacket

SpecFifo == InitDriver /\ [][NextFifo]_vars

(* set_frequency on the constructed driver *)
NextFreq == SetFrequency

SpecFreq == InitDriver /\ [][NextFreq]_vars

(* The receive calls *)
Recv ==
    /\ pc = "idle"
    /\ ~rx.pending
    /\ Finish(recv(CallState), "recv", 0, 0, -1, <<>>)
    /\ UNCHANGED <<want, pc, waitVars, packet, rx>>

(* on_recv(callback) on a driver built with a receive pin; cb is whether   *)
(* callback is set                                                         *)
OnRecv ==
    \E cb \in BOOLEAN :
        /\ pc = "idle"
        /\ ~rx.pending
        /\ Finish(on_recv(CallState, cb, rx.armed).s, "on_recv", B2I(cb), 0, -1, <<>>)
        /\ rx' = [rx EXCEPT !.armed = on_recv(CallState, cb, rx.armed).attached,
                            !.callback = on_recv(CallState, cb, rx.armed).callback]
        /\ UNCHANGED <<want, pc, waitVars, packet>>

ReceiveMessage ==
    \E tmo \in RxTimeoutInputs :
        /\ pc = "idle"
        /\ ~rx.pending
        /\ now + tmo + POLL_MS <= MaxClock
        /\ Apply(receive_message_start(CallState))
        /\ pc' = "rx_poll"
        /\ start_time' = now
        /\ timeout' = tmo
        /\ call' = "receive_message"
        /\ rx' = [rx EXCEPT !.dropped = FALSE, !.goodAt = -1]
        /\ UNCHANGED <<want, now, writes, txDoneAt, packet, last>>

RxPoll ==
    /\ pc = "rx_poll"
    /\ ~rx.pending
    /\ \E r \in {receive_message_poll(CallState, now - start_time, timeout)} :
          IF r.to \in {"sleep", "again"}
          THEN /\ Apply(r.s)
               /\ pc' = IF r.to = "sleep" THEN "rx_sleep" ELSE "rx_poll"
               /\ rx' = [rx EXCEPT !.dropped = @ \/ r.dropped]
               /\ UNCHANGED <<call, last>>
          ELSE /\ Finish(r.s, "receive_message", timeout, r.flags,
                         IF r.to = "payload" THEN 1 ELSE -1, r.payload)
               /\ pc' = "idle"
               /\ call' = "none"
               /\ UNCHANGED rx
    /\ UNCHANGED <<want, now, start_time, timeout, writes, txDoneAt, packet>>

RxSleep ==
    /\ pc = "rx_sleep"
    /\ ~rx.pending
    /\ now + POLL_MS <= MaxClock
    /\ pc' = "rx_poll"
    /\ now' = now + POLL_MS
    /\ UNCHANGED <<cfg, want, regs, fifo, chipTx, start_time, timeout, call, writes, packet, rx,
                   txDoneAt, bus, tbeam, last>>

(* The chip, in receive-continuous mode, completes the reception of a      *)
(* frame: it has stored the payload after the previous frame's, and it     *)
(* sets FIFO_RX_CURRENT_ADDR, RX_NB_BYTES and the RX_DONE flag, with       *)
(* PAYLOAD_CRC_ERROR if the CRC failed.  DIO0, mapped to RxDone, rises     *)
(* with the flag: the pin's handler, if attached, is scheduled and runs    *)
(* before the main flow's next step.                                       *)
ChipRxFrame ==
    \E ok \in BOOLEAN :
        LET payload == IF And(regs[MODEM_CONFIG_1], 1) = 1
                       THEN ImplicitPayload(Len(rx.frames) + 1, ok, regs[PAYLOAD_LENGTH])
                       ELSE Payload(Len(rx.frames) + 1, ok)
            addr == (regs[FIFO_RX_CURRENT_ADDR] + regs[RX_NB_BYTES]) % 256
            stored == [o \in {(addr + i - 1) % 256 : i \in 1..Len(payload)} |->
                          payload[CHOOSE i \in 1..Len(payload) : (addr + i - 1) % 256 = o]]
            waiting == pc \in {"rx_poll", "rx_flags", "rx_sleep"}
        IN  /\ And(regs[OP_MODE], 7) = RX_CONTINUOUS
            /\ Len(rx.frames) < MaxFrames
            /\ ~rx.pending
            /\ fifo' = stored @@ fifo
            /\ regs' = [regs EXCEPT ![FIFO_RX_CURRENT_ADDR] = addr,
                                    ![RX_NB_BYTES] = Len(payload),
                                    ![IRQ_FLAGS] = Or(@, IF ok THEN RX_DONE
                                                         ELSE RX_DONE + PAYLOAD_CRC_ERROR)]
            /\ rx' = [rx EXCEPT
                         !.frames = Append(@, [ok |-> ok, payload |-> payload]),
                         !.pending = /\ rx.armed
                                     /\ And(regs[IRQ_FLAGS], RX_DONE) = 0
                                     /\ And(regs[DIO_MAPPING_1], 192) = 0,
                         !.goodAt = IF waiting /\ rx.dropped /\ ok /\ @ = -1
                                    THEN now - start_time ELSE @]
            /\ UNCHANGED <<cfg, want, chipTx, pc, waitVars, packet, bus, tbeam, last>>

IrqHandler ==
    LET r == _irq_handler(CallState, rx.callback)
    IN  /\ rx.pending
        /\ Apply(r.s)
        /\ rx' = [rx EXCEPT !.pending = FALSE,
                            !.raised = @ \/ r.s.raised,
                            !.delivered = IF r.called THEN Append(@, r.payload) ELSE @]
        /\ UNCHANGED <<want, pc, waitVars, packet, last>>

(* recv, on_recv and receive_message against the receiver *)
NextRx ==
    \/ Recv
    \/ OnRecv
    \/ ReceiveMessage
    \/ RxPoll
    \/ RxSleep
    \/ ChipRxFrame
    \/ IrqHandler

SpecRx == InitDriver /\ [][NextRx]_vars

(* receive_message alone against the receiver; the main flow runs on and  *)
(* its sleeps end                                                          *)
NextRxLive ==
    \/ ReceiveMessage
    \/ RxPoll
    \/ RxSleep
    \/ ChipRxFrame

SpecRxLive ==
    InitDriver /\ [][NextRxLive]_vars /\ WF_vars(RxPoll) /\ WF_vars(RxSleep)

(* A pass of the wait loop of receive_message in two steps, for the        *)
(* handler running between them.  RxReadFlags is the test of the loop      *)
(* condition and `irq_flags = self._read(Registers.IRQ_FLAGS)`: the frame  *)
(* may have completed while this transfer was under way, the handler then  *)
(* runs when the transfer is over.  RxAct is the rest of the pass.         *)
RxReadFlags ==
    /\ pc = "rx_poll"
    /\ IF timeout = 0 \/ now - start_time < timeout
       THEN /\ pc' = "rx_flags"
            /\ rx' = [rx EXCEPT !.flags = _read(CallState, IRQ_FLAGS)]
            /\ UNCHANGED <<cfg, regs, fifo, chipTx, call, bus, tbeam, last>>
       ELSE /\ ~rx.pending
            /\ Finish(CallState, "receive_message", timeout, 0, -1, <<>>)
            /\ pc' = "idle"
            /\ call' = "none"
            /\ UNCHANGED rx
    /\ UNCHANGED <<want, now, start_time, timeout, writes, txDoneAt, packet>>

RxAct ==
    /\ pc = "rx_flags"
    /\ ~rx.pending
    /\ \E r \in {receive_message_pass(CallState, rx.flags, timeout)} :
          IF r.to \in {"sleep", "again"}
          THEN /\ Apply(r.s)
               /\ pc' = IF r.to = "sleep" THEN "rx_sleep" ELSE "rx_poll"
               /\ rx' = [rx EXCEPT !.dropped = @ \/ r.dropped, !.flags = 0]
               /\ UNCHANGED <<call, last>>
          ELSE /\ Finish(r.s, "receive_message", timeout, r.flags, 1, r.payload)
               /\ pc' = "idle"
               /\ call' = "none"
               /\ rx' = [rx EXCEPT !.flags = 0]
    /\ UNCHANGED <<want, now, start_time, timeout, writes, txDoneAt, packet>>

(* on_recv and receive_message with the handler running between the steps *)
(* of a pass of the wait loop                                              *)
NextRace ==
    \/ OnRecv
    \/ ReceiveMessage
    \/ RxReadFlags
    \/ RxAct
    \/ RxSleep
    \/ ChipRxFrame
    \/ IrqHandler

SpecRace == InitDriver /\ [][NextRace]_vars

(* One register access of the main context, step by step, with the        *)
(* handler running between the steps.  A bus call may fail (OSError) and   *)
(* bytes([value]) raises for a value that is not a byte; the exception     *)
(* leaves _transfer through its finally clause.                            *)
MainTransfers ==
    { [op |-> "read", addr |-> IRQ_FLAGS, value |-> 0],
      [op |-> "read", addr |-> FIFO_ADDR_PTR, value |-> 0],
      [op |-> "write", addr |-> PAYLOAD_LENGTH, value |-> 5],
      [op |-> "write", addr |-> FIFO_ADDR_PTR, value |-> 256] }

BusState ==
    [regs |-> regs, fifo |-> fifo, tx |-> chipTx, cs |-> bus.cs, ptr |-> bus.ptr, w |-> bus.w,
     resp |-> 0, wire |-> bus.wire]

(* The chip and the lines after a step; the handler's bytes are recorded  *)
(* only inside a transfer of the main context                              *)
ApplyBus(b, stage) ==
    /\ tbeam' = tbeam
    /\ regs' = b.regs
    /\ fifo' = b.fifo
    /\ chipTx' = b.tx
    /\ bus' = [bus EXCEPT !.cs = b.cs, !.ptr = b.ptr, !.w = b.w, !.stage = stage,
                          !.wire = IF bus.stage = "idle" /\ stage = "idle" THEN @ ELSE b.wire]

(* _read(addr) / _write(addr, value) enter _transfer: self.cs.value(0) *)
BusSelect ==
    \E x \in MainTransfers :
        /\ pc = "idle"
        /\ ~rx.pending
        /\ regs' = regs /\ fifo' = fifo /\ chipTx' = chipTx
        /\ bus' = [cs |-> 0, ptr |-> -1, w |-> FALSE, stage |-> "selected", op |-> x.op,
                   addr |-> IF x.op = "read" THEN read_address(x.addr) ELSE write_address(x.addr),
                   value |-> x.value,
                   wire |-> cs_value([BusState EXCEPT !.wire = <<>>], 0).wire]
        /\ pc' = "transfer"
        /\ UNCHANGED <<cfg, want, waitVars, packet, rx, tbeam, last>>

(* self.spi.write(bytes([addr])) *)
BusAddress ==
    \E fault \in BOOLEAN :
        /\ pc = "transfer" /\ bus.stage = "selected"
        /\ ~rx.pending
        /\ IF fault THEN ApplyBus(BusState, "failed")
           ELSE ApplyBus(spi_byte(BusState, bus.addr), "addressed")
        /\ UNCHANGED <<cfg, want, pc, waitVars, packet, rx, last>>

(* self.spi.write_readinto(bytes([value]), resp) *)
BusExchange ==
    \E fault \in BOOLEAN :
        /\ pc = "transfer" /\ bus.stage = "addressed"
        /\ ~rx.pending
        /\ IF fault \/ bus.value \notin 0..255 THEN ApplyBus(BusState, "failed")
           ELSE ApplyBus(spi_byte(BusState, bus.value), "exchanged")
        /\ UNCHANGED <<cfg, want, pc, waitVars, packet, rx, last>>

(* finally: self.cs.value(1), and _transfer returns or the exception goes on *)
BusRelease ==
    /\ pc = "transfer" /\ bus.stage \in {"exchanged", "failed"}
    /\ ~rx.pending
    /\ ApplyBus(transfer_release(BusState, bus.stage = "failed"), "idle")
    /\ pc' = "idle"
    /\ last' = [NoCall EXCEPT !.op = "_transfer", !.arg = bus.addr, !.arg2 = bus.value,
                              !.raised = (bus.stage = "failed")]
    /\ UNCHANGED <<cfg, want, waitVars, packet, rx>>

(* The handler, scheduled by the rising edge, runs to its end before the  *)
(* main context takes its next step                                        *)
IrqHandlerBus ==
    LET r == irq_handler_transfers(BusState, cfg.implicit, rx.callback)
    IN  /\ rx.pending
        /\ ApplyBus(r.b, bus.stage)
        /\ rx' = [rx EXCEPT !.pending = FALSE,
                            !.delivered = IF r.called THEN Append(@, r.payload) ELSE @]
        /\ UNCHANGED <<cfg, want, pc, waitVars, packet, last>>

NextBus ==
    \/ Recv
    \/ OnRecv
    \/ ChipRxFrame
    \/ BusSelect
    \/ BusAddress
    \/ BusExchange
    \/ BusRelease
    \/ IrqHandlerBus

SpecBus == InitDriver /\ [][NextBus]_vars

(* begin_packet, end_packet and send against the transmitter *)
NextTx ==
    \/ BeginPacket
    \/ EndPacket
    \/ Send
    \/ TxPoll
    \/ TxSleep
    \/ ChipTxDone

SpecTx == InitDriver /\ [][NextTx]_vars

---------------------------------------------------------------------------
(* Transmit Protocol: properties *)

(* C1: write_packet raises PacketTooLarge exactly when the value of the    *)
(* PAYLOAD_LENGTH register plus len(data) exceeds 255, which after         *)
(* begin_packet is the total of the bytes accepted in the cycle plus       *)
(* len(data); the call that raises writes no register at all, so no byte   *)
(* enters the FIFO and PAYLOAD_LENGTH and the bytes of the earlier calls   *)
(* stay as they were.                                                      *)
C1_WritePacketRaisesExactlyOnOverflow ==
    [][\A n \in DataLens :
          WritePacketOf(n) =>
              /\ last'.raised <=> (regs[PAYLOAD_LENGTH] + n > 255)
              /\ packet.begun => (last'.raised <=> (Len(packet.bytes) + n > 255))
              /\ last'.raised => (last'.nw = 0 /\ UNCHANGED <<regs, fifo, packet>>)
              /\ ~last'.raised => regs'[PAYLOAD_LENGTH] = regs[PAYLOAD_LENGTH] + n]_vars

C1_Witness ==
    /\ last.op = "write_packet"
    /\ last.raised
    /\ last.arg = 100
    /\ packet.begun
    /\ Len(packet.bytes) = 255
    /\ regs[PAYLOAD_LENGTH] = 255

(* A transmit wait (end_packet, or send that reached it) has returned *)
TxReturned == pc = "idle" /\ last.op \in {"end_packet", "send"} /\ ~last.raised

(* C2 as stated: if the chip raises TX_DONE after the switch to transmit   *)
(* mode and before the timeout (> 0) elapses, end_packet returns True and  *)
(* the TX_DONE flag is clear when it returns.                              *)
C2_TxDoneBeforeTimeoutReturnsTrue ==
    (TxReturned /\ timeout > 0 /\ txDoneAt >= 0 /\ txDoneAt < timeout)
        => (last.ret = 1 /\ And(last.irq, TX_DONE) = 0)

(* C2, amended: if the chip raises TX_DONE after the switch to transmit    *)
(* mode and more than one poll interval (10 ms) before the timeout (> 0)   *)
(* elapses, end_packet returns True and the TX_DONE flag is clear when it  *)
(* returns.                                                                *)
C2_TxDoneOnePollBeforeTimeoutReturnsTrue ==
    (TxReturned /\ timeout > 0 /\ txDoneAt >= 0 /\ txDoneAt < timeout - POLL_MS)
        => (last.ret = 1 /\ And(last.irq, TX_DONE) = 0)

C2_Witness ==
    /\ TxReturned
    /\ last.op = "end_packet"
    /\ timeout = 25
    /\ txDoneAt = 10
    /\ last.ret = 1
    /\ now - start_time = 20

(* C3: when end_packet (alone or inside send) returns False, the timeout   *)
(* has elapsed, the last operating mode written to the chip is transmit,   *)
(* and the call has made no register write after the one that switched to  *)
(* transmit mode, so none to the IRQ flag register; when it returns True   *)
(* it has made exactly one more, the acknowledgement.                      *)
C3_TimeoutLeavesTransmitModeAndFlags ==
    TxReturned =>
        LET before == IF last.op = "send" THEN Len(packet.bytes) + 5 ELSE 1
        IN  /\ last.ret \in {0, 1}
            /\ last.ret = 0 =>
                  /\ now - start_time >= timeout
                  /\ regs[OP_MODE] = Or(LORA_MASK, TX)
                  /\ last.nw = before
            /\ last.ret = 1 => last.nw = before + 1

C3_Witness ==
    /\ TxReturned
    /\ last.op = "send"
    /\ last.ret = 0
    /\ timeout = 30
    /\ txDoneAt = -1
    /\ chipTx

---------------------------------------------------------------------------
(* Receive Pipeline: properties *)

(* receive_message has returned: last.arg is its timeout, last.arg2 the    *)
(* IRQ flags read by its last pass, last.ret 1 with a payload, -1 for None *)
RxReturned == pc = "idle" /\ last.op = "receive_message"

RxWaiting == pc \in {"rx_poll", "rx_sleep"}

(* p is the payload of a frame that the chip received with a valid CRC *)
FromValidFrame(p) ==
    \E k \in DOMAIN rx.frames : rx.frames[k].ok /\ rx.frames[k].payload = p

(* C4: receive_message(timeout) with timeout > 0 terminates; it returns a  *)
(* payload only if it observed RX_DONE, so None if it never did; None is   *)
(* returned only once the timeout has elapsed; and it returns no later     *)
(* than timeout + 10 ms (one poll interval) after the call began.          *)
C4_ReceiveMessageReturnsInTime ==
    /\ [](RxWaiting /\ timeout > 0 => now - start_time <= timeout + POLL_MS)
    /\ [](RxReturned /\ last.arg > 0 =>
            /\ now - start_time <= last.arg + POLL_MS
            /\ last.ret = 1 => And(last.arg2, RX_DONE) # 0
            /\ last.ret = -1 => now - start_time >= last.arg)
    /\ (RxWaiting /\ timeout > 0) ~> (pc = "idle")

C4_Witness ==
    /\ RxReturned
    /\ last.arg = 25
    /\ last.ret = -1
    /\ now - start_time = 30
    /\ rx.frames = <<>>

(* C5: receive_message(0) never returns None: when it returns, it returns  *)
(* a payload, the flags it read last had RX_DONE without                   *)
(* PAYLOAD_CRC_ERROR, and the payload is that of a frame received with a   *)
(* valid CRC.                                                              *)
C5_ReceiveMessageZeroReturnsOnlyAFrame ==
    (RxReturned /\ last.arg = 0) =>
        /\ last.ret = 1
        /\ And(last.arg2, RX_DONE) # 0
        /\ And(last.arg2, PAYLOAD_CRC_ERROR) = 0
        /\ FromValidFrame(last.payload)

C5_Witness ==
    /\ RxReturned
    /\ last.arg = 0
    /\ last.ret = 1
    /\ last.payload = Payload(2, TRUE)
    /\ rx.delivered = <<Payload(1, TRUE)>>

(* C6: a frame received with PAYLOAD_CRC_ERROR is never delivered: every   *)
(* payload given to the callback and every payload returned by             *)
(* receive_message is that of a frame received with a valid CRC, and       *)
(* neither the handler nor receive_message raises.                         *)
C6_CrcErrorFrameNeverDelivered ==
    /\ \A i \in DOMAIN rx.delivered : FromValidFrame(rx.delivered[i])
    /\ (RxReturned /\ last.ret = 1) => FromValidFrame(last.payload)
    /\ ~rx.raised
    /\ last.op = "receive_message" => ~last.raised

C6_Witness ==
    /\ RxReturned
    /\ last.ret = -1
    /\ rx.dropped
    /\ rx.frames = <<[ok |-> FALSE, payload |-> Payload(1, FALSE)],
                     [ok |-> TRUE, payload |-> Payload(2, TRUE)],
                     [ok |-> FALSE, payload |-> Payload(3, FALSE)]>>
    /\ rx.delivered = <<Payload(2, TRUE)>>

(* C7: within one receive_message call (no handler attached), after the    *)
(* call has dropped a frame for its CRC error, a frame that the chip       *)
(* receives with a valid CRC before the timeout elapses is returned: the   *)
(* call does not return None.                                              *)
C7_ValidFrameAfterDropIsReturned ==
    (RxReturned /\ ~rx.armed /\ rx.dropped /\ rx.goodAt >= 0 /\ rx.goodAt < last.arg)
        => last.ret = 1

(* the same for a valid frame that completes more than one poll interval   *)
(* before the timeout elapses                                              *)
ValidFrameAPollAfterDropIsReturned ==
    (RxReturned /\ ~rx.armed /\ rx.dropped /\ rx.goodAt >= 0
        /\ rx.goodAt < last.arg - POLL_MS)
        => last.ret = 1

---------------------------------------------------------------------------
(* Configuration Model *)

(* C8: after construction and after any sequence of setter calls,          *)
(* get_config() holds for every parameter the last value passed to its     *)
(* setter, clamped to the parameter's range (coding rate 5..8, preamble    *)
(* length 6..65535, RFO transmit power 0..14), and a call that raised has  *)
(* not changed it.                                                         *)
C8_ConfigHoldsLastClampedValues ==
    pc = "idle" => get_config = want

(* C9: set_spreading_factor(sf) with sf < 6 or sf > 12 raises before any   *)
(* register write of the call and leaves the stored configuration and      *)
(* every chip register as they were.                                       *)
C9_RejectedSpreadingFactorChangesNothing ==
    [][\A sf \in SfInputs :
          (SetSpreadingFactorOf(sf) /\ (sf < 6 \/ sf > 12))
              => (last'.raised /\ last'.nw = 0 /\ UNCHANGED <<cfg, regs, fifo, chipTx>>)]_vars

C9_Witness ==
    /\ pc = "idle"
    /\ last.op = "set_spreading_factor"
    /\ last.raised
    /\ last.arg = 13
    /\ cfg.spreading_factor = 12

(* C10: in every state after construction, MODEM_CONFIG_3 has the          *)
(* low-data-rate-optimize flag (bit 3) set if and only if the configured   *)
(* spreading factor is > 10 and the configured bandwidth is < 250000 Hz,   *)
(* and holds only the automatic-gain-control bit (0x04) otherwise.         *)
C10_LowDataRateFlagFollowsConfig ==
    pc = "idle" =>
        LET ldo == cfg.spreading_factor > 10 /\ cfg.bandwidth < 250000
        IN  /\ (And(regs[MODEM_CONFIG_3], 8) = 8) <=> ldo
            /\ ~ldo => regs[MODEM_CONFIG_3] = 4

---------------------------------------------------------------------------
(* Receive Pipeline: the interrupt path *)

(* C19: while no callback is set (after on_recv(None), until on_recv is    *)
(* called with a callback) no frame schedules the handler and no callback  *)
(* is invoked.                                                             *)
C19_NoCallbackNoHandlerRun ==
    [][~rx.callback =>
          /\ ~rx'.pending
          /\ rx'.delivered = rx.delivered
          /\ ~rx'.callback => ~rx'.armed]_vars

(* A frame was delivered to the callback, on_recv(None) was called, and a  *)
(* valid frame has been received since: its RX_DONE flag is up, the        *)
(* handler is not scheduled and nothing more was delivered                 *)
C19_Witness ==
    /\ ~rx.callback
    /\ last.op = "on_recv"
    /\ last.arg = 0
    /\ rx.delivered = <<Payload(1, TRUE)>>
    /\ Len(rx.frames) = 2
    /\ rx.frames[2].ok
    /\ And(regs[IRQ_FLAGS], RX_DONE) # 0
    /\ ~rx.pending

(* C20: with the handler armed while receive_message polls, no frame's     *)
(* payload is both passed to the callback and returned by receive_message. *)
C20_FrameConsumedByOnePath ==
    (last.op = "receive_message" /\ last.ret = 1) =>
        \A i \in DOMAIN rx.delivered : rx.delivered[i] # last.payload

---------------------------------------------------------------------------
(* Initialization / Version Check: properties *)

(* What construction with the same overrides leaves in the registers of a *)
(* chip that answers the first identity read                              *)
ConstructedWith(kwargs) ==
    construct([cfg |-> DEFAULT, regs |-> ResetRegs, fifo |-> ResetFifo, tx |-> FALSE,
               nw |-> 0, raised |-> FALSE, reads |-> 0, log |-> <<>>], kwargs, IdGood)

C18_AtMostFiveIdentityReads ==
    last.op = "__init__" =>
        /\ last.arg <= 5
        /\ last.arg2 \in 1..5 => last.arg = last.arg2

(* C18, amended: during construction the identity register is read at     *)
(* most 6 times in total (the first read and up to 5 retries), and not     *)
(* again once a read has returned 0x12.                                    *)
C18_AtMostSixIdentityReads ==
    last.op = "__init__" =>
        /\ last.arg <= 6
        /\ last.arg2 \in 1..6 => last.arg = last.arg2
        /\ last.arg2 \notin 1..6 => last.arg = 6

C18_Witness ==
    /\ last.op = "__init__"
    /\ last.arg2 = 6
    /\ last.arg = 6
    /\ pc = "idle"

---------------------------------------------------------------------------
(* Modem Configuration Engine and Power Amplifier Controller: properties *)

(* C11: from every state of the driver, for every bandwidth bw and every   *)
(* spreading factor sf in 6..12, set_bandwidth(bw) followed by             *)
(* set_spreading_factor(sf) and set_spreading_factor(sf) followed by       *)
(* set_bandwidth(bw) end with the same chip registers and the same stored  *)
(* configuration.                                                          *)
C11_BandwidthAndSpreadingFactorCommute ==
    pc = "idle" =>
        \A bw \in BwInputs, sf \in 6..12 :
            LET bw_sf == set_spreading_factor(set_bandwidth(CallState, bw), sf)
                sf_bw == set_bandwidth(set_spreading_factor(CallState, sf), bw)
            IN  bw_sf.regs = sf_bw.regs /\ bw_sf.cfg = sf_bw.cfg

C11_Witness ==
    /\ pc = "idle"
    /\ last.op = "setter"
    /\ cfg.spreading_factor = 12
    /\ cfg.bandwidth = 62500
    /\ regs[MODEM_CONFIG_3] = 8
    /\ regs[MODEM_CONFIG_1] \div 16 = 6

(* The number of entries of the ascending table that are below bw: the     *)
(* index of the first entry >= bw, and 9 when there is none                *)
FirstAtLeast(bw) == Cardinality({i \in DOMAIN BANDWIDTHS : BANDWIDTHS[i] < bw})

(* C12: set_bandwidth(bw) writes into the high nibble of MODEM_CONFIG_1    *)
(* the index of the first table entry >= bw (7 for 125000), 9 when bw      *)
(* exceeds 250000, and keeps the low nibble.                               *)
C12_BandwidthIndex ==
    [][\A bw \in BwInputs :
          SetBandwidthOf(bw) =>
              /\ regs'[MODEM_CONFIG_1] \div 16 = FirstAtLeast(bw)
              /\ regs'[MODEM_CONFIG_1] % 16 = regs[MODEM_CONFIG_1] % 16
              /\ bw = 125000 => regs'[MODEM_CONFIG_1] \div 16 = 7
              /\ bw > 250000 => regs'[MODEM_CONFIG_1] \div 16 = 9]_vars

C12_Witness ==
    /\ pc = "idle"
    /\ last.op = "setter"
    /\ cfg.bandwidth = 125000
    /\ regs[MODEM_CONFIG_1] \div 16 = 7

(* C13: for sf in 6..12, set_spreading_factor(sf) writes 0xC5 and 0x0C to  *)
(* the detection-optimize and detection-threshold registers when sf = 6,   *)
(* 0xC3 and 0x0A otherwise, and sf into the high nibble of MODEM_CONFIG_2, *)
(* keeping its low nibble.                                                 *)
C13_SpreadingFactorRegisters ==
    [][\A sf \in 6..12 :
          SetSpreadingFactorOf(sf) =>
              /\ regs'[DETECTION_OPTIMIZE] = IF sf = 6 THEN 197 ELSE 195
              /\ regs'[DETECTION_THRESHOLD] = IF sf = 6 THEN 12 ELSE 10
              /\ regs'[MODEM_CONFIG_2] \div 16 = sf
              /\ regs'[MODEM_CONFIG_2] % 16 = regs[MODEM_CONFIG_2] % 16]_vars

C13_Witness ==
    /\ pc = "idle"
    /\ last.op = "setter"
    /\ cfg.spreading_factor = 6
    /\ regs[DETECTION_OPTIMIZE] = 197
    /\ regs[DETECTION_THRESHOLD] = 12
    /\ regs[MODEM_CONFIG_2] \div 16 = 6

(* C14: the three frequency registers hold, most significant byte first,   *)
(* the nearest integer to f_Hz * 2^19 / 32000000, which for f counted in   *)
(* units of 10 kHz is the nearest integer to f * 4096 / 25.                *)
C14_FrequencyRegistersHoldNearestInteger ==
    pc = "idle" =>
        regs[FRF_MSB] * 65536 + regs[FRF_MID] * 256 + regs[FRF_LSB]
            = (cfg.frequency * 8192 + 25) \div 50

(* C15: set_coding_rate(d) writes into bits 3..1 of MODEM_CONFIG_1 the     *)
(* field 1 for d <= 5, 4 for d >= 8 and d - 4 in between, keeps the other  *)
(* bits, and stores the clamped d.                                         *)
C15_CodingRateField ==
    [][\A d \in CrInputs :
          SetCodingRateOf(d) =>
              LET field == IF d < 5 THEN 1 ELSE IF d > 8 THEN 4 ELSE d - 4
              IN  /\ (regs'[MODEM_CONFIG_1] \div 2) % 8 = field
                  /\ regs'[MODEM_CONFIG_1] % 2 = regs[MODEM_CONFIG_1] % 2
                  /\ regs'[MODEM_CONFIG_1] \div 16 = regs[MODEM_CONFIG_1] \div 16
                  /\ cfg'.coding_rate = field + 4]_vars

C15_Witness ==
    /\ pc = "idle"
    /\ last.op = "setter"
    /\ cfg.coding_rate = 8
    /\ (regs[MODEM_CONFIG_1] \div 2) % 8 = 4

(* C16: set_tx_power(level, pin) writes PA_CONFIG = 0x70 | clamp(level, 0, *)
(* 14) on the RFO path; on the boosted path, for level > 19 the low three  *)
(* PA_DAC bits 7 and PA_CONFIG = 0x80 | 15, for level 18..19 the bits 4    *)
(* and PA_CONFIG = 0x80 | 15, for 2 <= level <= 17 the bits 0 and          *)
(* PA_CONFIG = 0x80 | (level - 2); the other PA_DAC bits are kept.         *)
C16_TxPowerRegisters ==
    [][\A level \in LevelInputs, pin \in PinInputs :
          SetTxPowerOf(level, pin) =>
              /\ pin = RFO_PIN =>
                    regs'[PA_CONFIG] = 112 + (IF level < 0 THEN 0 ELSE IF level > 14 THEN 14 ELSE level)
              /\ (pin = BOOST_PIN /\ level > 19) =>
                    (regs'[PA_DAC] % 8 = 7 /\ regs'[PA_CONFIG] = 128 + 15)
              /\ (pin = BOOST_PIN /\ level \in 18..19) =>
                    (regs'[PA_DAC] % 8 = 4 /\ regs'[PA_CONFIG] = 128 + 15)
              /\ (pin = BOOST_PIN /\ level \in 2..17) =>
                    (regs'[PA_DAC] % 8 = 0 /\ regs'[PA_CONFIG] = 128 + level - 2)
              /\ (pin = BOOST_PIN /\ level >= 2) =>
                    regs'[PA_DAC] \div 8 = regs[PA_DAC] \div 8]_vars

C16_Witness ==
    /\ pc = "idle"
    /\ last.op = "setter"
    /\ cfg.tx_power = 19
    /\ cfg.output_pin = BOOST_PIN
    /\ regs[PA_DAC] % 8 = 4
    /\ regs[PA_CONFIG] = 143

---------------------------------------------------------------------------
(* Transmit Protocol: send *)

(* C21: send(data, timeout) with data longer than 255 bytes raises after   *)
(* the three register writes of begin_packet and no other: the packet      *)
(* buffer is as it was, the payload length is 0, the mode register holds   *)
(* standby and the transmitter is idle.  With shorter data it leaves what  *)
(* begin_packet, write_packet(data) and the mode write of end_packet       *)
(* leave, and waits for the end of the transmission.                       *)
C21_SendTooLargeNeverTransmits ==
    [][\A n \in SendLens, tmo \in TimeoutInputs :
          SendOf(n, tmo) =>
              IF n > MAX_PKT_LENGTH
              THEN /\ last'.op = "send" /\ last'.raised
                   /\ last'.nw = 3
                   /\ fifo' = fifo
                   /\ regs'[PAYLOAD_LENGTH] = 0
                   /\ regs'[OP_MODE] = 128 + STDBY
                   /\ ~chipTx'
                   /\ pc' = "idle"
              ELSE /\ pc' = "tx_poll" /\ call' = "send"
                   /\ regs' = end_packet_start(write_packet(begin_packet(CallState), Data(n))).regs
                   /\ regs'[PAYLOAD_LENGTH] = n
                   /\ \A i \in 1..n : FifoGet(fifo', TX_BASE_ADDR + i - 1) = Data(n)[i]
                   /\ regs'[OP_MODE] = 128 + TX
                   /\ chipTx']_vars

C21_Witness ==
    /\ last.op = "send"
    /\ last.raised
    /\ last.arg = 256
    /\ regs[OP_MODE] = 128 + STDBY
    /\ fifo # ResetFifo
    /\ ~chipTx

---------------------------------------------------------------------------
(* Initialization: the order of the register writes *)

(* The registers _configure_radio is to write: base addresses, frequency,  *)
(* modem configuration, LNA, power amplifier                               *)
ConfigurationRegisters ==
    {FIFO_TX_BASE_ADDR, FIFO_RX_BASE_ADDR, FRF_MSB, FRF_MID, FRF_LSB, MODEM_CONFIG_1,
     MODEM_CONFIG_2, MODEM_CONFIG_3, DETECTION_OPTIMIZE, DETECTION_THRESHOLD, PREAMBLE_MSB,
     PREAMBLE_LSB, SYNC_WORD, LNA, PA_CONFIG}

(* C22: the first register write of construction is the sleep mode, the    *)
(* last one is the standby mode, the mode is not written in between, and   *)
(* every configuration register is written in between.                     *)
C22_SleepThenConfigurationThenStandby ==
    last.op = "__init__" =>
        /\ Len(last.log) = last.nw
        /\ last.log[1] = <<128 + OP_MODE, 128 + SLEEP>>
        /\ last.log[Len(last.log)] = <<128 + OP_MODE, 128 + STDBY>>
        /\ \A i \in 2..(Len(last.log) - 1) : last.log[i][1] # 128 + OP_MODE
        /\ \A r \in ConfigurationRegisters :
               \E i \in 2..(Len(last.log) - 1) : last.log[i][1] = 128 + r

C22_Witness ==
    /\ last.op = "__init__"
    /\ cfg.output_pin = BOOST_PIN
    /\ Len(last.log) > 20
    /\ last.log[2] = <<128 + FIFO_TX_BASE_ADDR, TX_BASE_ADDR>>
    /\ last.log[Len(last.log) - 1][1] = 128 + PA_CONFIG
    /\ regs[OP_MODE] = 128 + STDBY

---------------------------------------------------------------------------
(* Modem Configuration Engine: the shared control registers *)

(* C23: after construction and any sequence of set_bandwidth,              *)
(* set_coding_rate, set_implicit, set_spreading_factor and set_crc calls,  *)
(* MODEM_CONFIG_1 is (bandwidth index << 4) | ((coding rate - 4) << 1) |   *)
(* implicit bit of the stored configuration, and MODEM_CONFIG_2 has the    *)
(* spreading factor in its high nibble, the CRC setting in bit 2 and its   *)
(* bits 3, 1 and 0 as the chip had them.                                   *)
C23_SettersKeepEachOthersFields ==
    pc = "idle" =>
        /\ regs[MODEM_CONFIG_1] =
               16 * bw_index(cfg.bandwidth) + 2 * (cfg.coding_rate - 4) + B2I(cfg.implicit)
        /\ regs[MODEM_CONFIG_2] \div 16 = cfg.spreading_factor
        /\ And(regs[MODEM_CONFIG_2], 4) = 4 * B2I(cfg.crc)
        /\ And(regs[MODEM_CONFIG_2], 11) = And(ResetRegs[MODEM_CONFIG_2], 11)

C23_Witness ==
    /\ pc = "idle"
    /\ last.op = "setter"
    /\ cfg.crc /\ cfg.implicit
    /\ cfg.spreading_factor = 12 /\ cfg.bandwidth = 62500 /\ cfg.coding_rate = 8
    /\ regs[MODEM_CONFIG_1] = 105
    /\ regs[MODEM_CONFIG_2] = 199

---------------------------------------------------------------------------
(* Transmit Protocol: the packet under construction *)

(* C24: after begin_packet and any sequence of write_packet calls the      *)
(* payload-length register is the sum of the lengths of the calls that     *)
(* returned, at most 255; the packet buffer holds, from the transmit base  *)
(* offset, the bytes of those calls in call order; and a call that returns *)
(* returns len(data).                                                      *)
C24_PacketIsTheAcceptedBytes ==
    packet.begun =>
        /\ regs[PAYLOAD_LENGTH] = Len(packet.bytes)
        /\ regs[PAYLOAD_LENGTH] <= MAX_PKT_LENGTH
        /\ regs[FIFO_ADDR_PTR] = (TX_BASE_ADDR + Len(packet.bytes)) % 256
        /\ \A i \in 1..Len(packet.bytes) :
               FifoGet(fifo, (TX_BASE_ADDR + i - 1) % 256) = packet.bytes[i]
        /\ (last.op = "write_packet" /\ ~last.raised) => last.ret = last.arg
        /\ (last.op = "write_packet" /\ last.raised) => last.ret = -1

(* 100 bytes, then 155 bytes *)
C24_Witness ==
    /\ packet.begun
    /\ packet.bytes = Data(100) \o Data(155)
    /\ last.op = "write_packet" /\ last.ret = 155
    /\ regs[PAYLOAD_LENGTH] = 255
    /\ FifoGet(fifo, 100) = Data(155)[1]

---------------------------------------------------------------------------
(* Receive Pipeline: one run of the handler *)

(* C25: a run of the handler writes to IRQ_FLAGS, first, the value the     *)
(* register holds, so that no flag is left set.  If RX_DONE was set and    *)
(* PAYLOAD_CRC_ERROR was not, it positions the cursor (its only other      *)
(* write) and gives the callback the payload of the last frame, once;      *)
(* otherwise it makes no other write, leaves the cursor where it was and   *)
(* gives the callback nothing.  It does not raise.                         *)
C25_HandlerAcknowledgesAllAndDeliversOnce ==
    [][IrqHandler =>
          LET run == _irq_handler(CallState, rx.callback)
              valid == /\ And(regs[IRQ_FLAGS], RX_DONE) # 0
                       /\ And(regs[IRQ_FLAGS], PAYLOAD_CRC_ERROR) = 0
          IN  /\ run.s.log[1] = <<128 + IRQ_FLAGS, regs[IRQ_FLAGS]>>
              /\ regs'[IRQ_FLAGS] = 0
              /\ ~run.s.raised /\ rx'.raised = rx.raised
              /\ IF valid
                 THEN /\ rx'.delivered = Append(rx.delivered, rx.frames[Len(rx.frames)].payload)
                      /\ Len(run.s.log) = 2
                      /\ run.s.log[2] = <<128 + FIFO_ADDR_PTR, regs[FIFO_RX_CURRENT_ADDR]>>
                 ELSE /\ rx'.delivered = rx.delivered
                      /\ Len(run.s.log) = 1
                      /\ regs'[FIFO_ADDR_PTR] = regs[FIFO_ADDR_PTR]]_vars

(* The handler has delivered the first frame and dropped the second, whose *)
(* CRC failed: nothing is left set in IRQ_FLAGS                            *)
C25_Witness ==
    /\ rx.callback /\ ~rx.pending
    /\ Len(rx.frames) = 2
    /\ rx.frames[1].ok /\ ~rx.frames[2].ok
    /\ rx.delivered = <<Payload(1, TRUE)>>
    /\ regs[IRQ_FLAGS] = 0

---------------------------------------------------------------------------
(* Receive Pipeline: payload extraction *)

(* The driver constructed in either header mode, then the receive calls *)
InitPayload ==
    \E implicit \in BOOLEAN :
        LET built == ConstructedWith([DEFAULT EXCEPT !.implicit = implicit])
        IN  /\ cfg = built.cfg
            /\ want = Clamped(built.cfg)
            /\ regs = built.regs
            /\ fifo = built.fifo
            /\ chipTx = built.tx
            /\ pc = "idle"
            /\ now = 0
            /\ start_time = 0
            /\ timeout = 0
            /\ call = "none"
            /\ writes = 0
            /\ packet = NoPacket
            /\ rx = NoRx
            /\ txDoneAt = -1
            /\ bus = NoBus
            /\ tbeam = NoTBeam
            /\ last = NoCall

NextPayload ==
    \/ Recv
    \/ OnRecv
    \/ ReceiveMessage
    \/ RxPoll
    \/ RxSleep
    \/ ChipRxFrame
    \/ IrqHandler

SpecPayload == InitPayload /\ [][NextPayload]_vars

---------------------------------------------------------------------------
(* Power Amplifier Controller: the auxiliary stage and the level field *)

(* C29: after construction and any sequence of set_tx_power calls the low  *)
(* three bits of PA_DAC are non-zero only if the stored configuration is   *)
(* the boosted path with a transmit power above 17.                        *)
C29_HighPowerBitsOnlyWhenBoostedAbove17 ==
    pc = "idle" =>
        (regs[PA_DAC] % 8 # 0 => (cfg.output_pin = BOOST_PIN /\ cfg.tx_power > 17))

(* C30: every set_tx_power(level, boosted) call completes, and leaves in   *)
(* PA_CONFIG a byte in 0x80..0x8F; no call has stored its arguments and    *)
(* then raised in a register write.                                        *)
C30_BoostedLevelFitsTheRegister ==
    pc = "idle" =>
        /\ ~(last.op = "set_tx_power" /\ last.raised)
        /\ cfg.output_pin = BOOST_PIN => regs[PA_CONFIG] \in 128..143

---------------------------------------------------------------------------
(* Bus Transfer Primitive: properties *)

(* C27: a register transfer of the main context is atomic with respect to *)
(* the handler: from its chip-select assertion to its release the bus      *)
(* carries its address byte and its value byte and nothing else.           *)
C27_TransferIsAtomic ==
    (bus.stage = "idle" /\ last.op = "_transfer" /\ ~last.raised) =>
        bus.wire = << <<"cs", 0>>, <<"tx", last.arg>>, <<"tx", last.arg2>>, <<"cs", 1>> >>

(* C28: whenever no transfer is in progress chip-select is high, also      *)
(* after a transfer in which a bus call failed or the value was not a      *)
(* byte; a read passes _transfer an address with bit 7 clear and a write   *)
(* one with bit 7 set, and that is the first byte the transfer sends.      *)
C28_ChipSelectReleasedAndDirectionBit ==
    /\ bus.stage = "idle" => bus.cs = 1
    /\ bus.op = "read" => bus.addr < 128
    /\ bus.op = "write" => bus.addr >= 128
    /\ (bus.stage \in {"addressed", "exchanged"}) =>
           \E i \in 2..Len(bus.wire) : bus.wire[i] = <<"tx", bus.addr>>
    /\ (last.op = "_transfer" /\ last.raised /\ bus.stage = "idle") =>
           bus.wire[Len(bus.wire)] = <<"cs", 1>>

(* A write whose value is not a byte has raised after its address byte;    *)
(* chip-select is high again                                               *)
C28_Witness ==
    /\ bus.stage = "idle"
    /\ last.op = "_transfer" /\ last.raised
    /\ last.arg = 128 + FIFO_ADDR_PTR /\ last.arg2 = 256
    /\ bus.wire = << <<"cs", 0>>, <<"tx", 128 + FIFO_ADDR_PTR>>, <<"cs", 1>> >>
    /\ bus.cs = 1

---------------------------------------------------------------------------
(* Transmit Protocol: whose TX_DONE *)

(* C31: end_packet (alone or inside send) returns True only if the         *)
(* transmission it started has completed: when it returns True the chip    *)
(* is no longer transmitting and raised TX_DONE during this wait.          *)
C31_TrueOnlyForOwnTransmission ==
    (TxReturned /\ last.ret = 1) => (~chipTx /\ txDoneAt >= 0)

---------------------------------------------------------------------------
(* The TBeam node (tbeam_optimized.py) on top of the driver *)

(* max_buffer=20, the default of _add_to_message_buffer; timeout=5000, the  *)
(* default of LoRa.send, which send_message leaves alone                   *)
max_buffer == 20
SEND_TIMEOUT == 5000

(* The receive callback accepts at most MaxMessages messages; the k-th      *)
(* message accepted is the number k (its received_at tells it from every    *)
(* other message)                                                          *)
MaxMessages == 23

(* No send_message starts that could read the clock past MaxSendClock *)
MaxSendClock == 5100

(* What the receive callback is given: a JSON object for another node or    *)
(* of another type than PING ("json"), a PING for this node or for          *)
(* BROADCAST ("ping"), a text that is not JSON ("text"), or bytes that are  *)
(* not UTF-8 or JSON that is not an object ("rejected")                     *)
MessageKinds == {"json", "ping", "text", "rejected"}

(* Lengths in bytes of the PONG that answers a PING, and of the strings     *)
(* send_message is called with                                              *)
PongLens == {90}
MessageLens == {90, 255, 256}

(* _add_to_message_buffer removing the newest message rather than the oldest *)
_add_to_message_buffer_PopLast(received_messages, message) ==
    Append(IF Len(received_messages) >= max_buffer
           THEN SubSeq(received_messages, 1, Len(received_messages) - 1)
           ELSE received_messages, message)

(* if len(self.received_messages) >= max_buffer: self.received_messages.pop(0) *)
(* self.received_messages.append(message)                                      *)
_add_to_message_buffer(received_messages, message) ==
    Append(IF Len(received_messages) >= max_buffer
           THEN Tail(received_messages)
           ELSE received_messages, message)

(* messages is the copy returned *)
get_messages(received_messages, clear) ==
    [messages |-> received_messages,
     received_messages |-> IF clear THEN <<>> ELSE received_messages]

clear_messages(received_messages) == <<>>

(* send_message up to the wait loop of LoRa.send: a dict has been turned    *)
(* into its JSON string, data is the string's bytes                         *)
send_message_start(s, data) == send_start(s, data)

(* send_message after LoRa.send has returned: self.lora.recv() *)
send_message_end(s) == recv(s)

(* send_message run to its end inside the receive callback: either the chip *)
(* raises TX_DONE and a pass of the wait loop sees it (done), or the wait   *)
(* times out.  An exception of LoRa.send leaves send_message at once.       *)
send_message_run(s, data, done) ==
    LET s1 == send_message_start(s, data)
        sent == [s1 EXCEPT !.regs[IRQ_FLAGS] = Or(@, TX_DONE), !.tx = FALSE]
    IN  IF s1.raised THEN s1
        ELSE IF done THEN send_message_end(end_packet_poll(sent, 0, SEND_TIMEOUT).s)
        ELSE send_message_end(end_packet_poll(s1, SEND_TIMEOUT, SEND_TIMEOUT).s)

(* _on_message_received(data): a message that decodes is put in the buffer; *)
(* a PING is answered by _send_pong, which calls send_message; whatever     *)
(* was raised is caught, and the callback ends with self.lora.recv().       *)
(* (get_rssi and get_snr only read registers.)                              *)
_on_message_received(s, received_messages, message, kind, pong, done) ==
    LET s1 == IF kind = "ping" THEN send_message_run(s, pong, done) ELSE s
    IN  [s |-> recv([s1 EXCEPT !.raised = FALSE]),
         received_messages |-> IF kind = "rejected" THEN received_messages
                               ELSE _add_to_message_buffer(received_messages, message)]

(* TBeam(): LoRa(...) with the node's radio parameters at 868.0 MHz, then   *)
(* on_recv(self._on_message_received) and recv()                            *)
TBeamKwargs ==
    [DEFAULT EXCEPT !.frequency = 86800, !.bandwidth = 125000, !.spreading_factor = 10,
                    !.coding_rate = 5, !.tx_power = 20, !.preamble_length = 8,
                    !.crc = TRUE, !.output_pin = BOOST_PIN]

_init_lora == recv(on_recv(ConstructedWith(TBeamKwargs), TRUE, FALSE).s)

InitTBeam ==
    /\ cfg = _init_lora.cfg
    /\ want = Clamped(TBeamKwargs)
    /\ regs = _init_lora.regs
    /\ fifo = _init_lora.fifo
    /\ chipTx = _init_lora.tx
    /\ pc = "idle"
    /\ now = 0
    /\ start_time = 0
    /\ timeout = 0
    /\ call = "none"
    /\ writes = 0
    /\ packet = NoPacket
    /\ rx = [NoRx EXCEPT !.armed = TRUE, !.callback = TRUE]
    /\ txDoneAt = -1
    /\ bus = NoBus
    /\ tbeam = NoTBeam
    /\ last = NoCall

(* A call of the node ends *)
FinishTBeam(s, op, a1, ret) ==
    /\ ApplyDriver(s)
    /\ last' = [NoCall EXCEPT !.op = op, !.arg = a1, !.raised = s.raised, !.nw = s.nw,
                              !.ret = ret, !.irq = s.regs[IRQ_FLAGS]]

(* The driver's handler calls the node's callback with the payload of a     *)
(* valid frame                                                              *)
OnMessageReceived ==
    \E kind \in MessageKinds, n \in PongLens, done \in BOOLEAN :
        LET message == tbeam.accepted + 1
            r == _on_message_received(CallState, tbeam.received_messages, message, kind,
                                      Data(n), done)
        IN  /\ pc = "idle"
            /\ tbeam.accepted < MaxMessages
            /\ FinishTBeam(r.s, "_on_message_received", 0, -1)
            /\ tbeam' = [tbeam EXCEPT
                            !.received_messages = r.received_messages,
                            !.accepted = IF kind = "rejected" THEN @ ELSE message,
                            !.added = IF kind = "rejected" THEN @ ELSE Append(@, message),
                            !.asked = <<>>,
                            !.returned = <<>>]
            /\ packet' = IF kind = "ping" THEN [begun |-> TRUE, bytes |-> Data(n)] ELSE packet
            /\ UNCHANGED <<want, pc, waitVars, rx>>

GetMessages ==
    \E clear \in BOOLEAN :
        LET r == get_messages(tbeam.received_messages, clear)
        IN  /\ pc = "idle"
            /\ FinishTBeam(CallState, "get_messages", B2I(clear), Len(r.messages))
            /\ tbeam' = [tbeam EXCEPT
                            !.received_messages = r.received_messages,
                            !.added = IF clear THEN <<>> ELSE @,
                            !.asked = tbeam.added,
                            !.returned = r.messages]
            /\ UNCHANGED <<want, pc, waitVars, packet, rx>>

ClearMessages ==
    /\ pc = "idle"
    /\ FinishTBeam(CallState, "clear_messages", 0, -1)
    /\ tbeam' = [tbeam EXCEPT !.received_messages = clear_messages(@), !.added = <<>>,
                              !.asked = <<>>, !.returned = <<>>]
    /\ UNCHANGED <<want, pc, waitVars, packet, rx>>

(* The node's message buffer under received messages and its readers *)
NextBuffer ==
    \/ OnMessageReceived
    \/ GetMessages
    \/ ClearMessages

SpecBuffer == InitTBeam /\ [][NextBuffer]_vars

(* The last n elements of seq, all of them if it has fewer *)
MostRecent(seq, n) == SubSeq(seq, Max(1, Len(seq) - n + 1), Len(seq))

(* C32: the received-message buffer never holds more than 20 messages: it   *)
(* is the 20 most recently added messages (all of them if fewer were added  *)
(* since it was emptied) in arrival order; get_messages returns just that,  *)
(* and get_messages(clear=True) or clear_messages() leaves the buffer      *)
(* empty.                                                                   *)
C32_BufferIsTheLastTwentyAdded ==
    /\ Len(tbeam.received_messages) <= 20
    /\ tbeam.received_messages = MostRecent(tbeam.added, 20)
    /\ last.op = "get_messages" =>
          /\ tbeam.returned = MostRecent(tbeam.asked, 20)
          /\ last.arg = 1 => tbeam.received_messages = <<>>
    /\ last.op = "clear_messages" => tbeam.received_messages = <<>>

(* get_messages(clear=True) after more than 20 messages were added: the     *)
(* oldest are gone                                                          *)
C32_Witness ==
    /\ last.op = "get_messages"
    /\ last.arg = 1
    /\ Len(tbeam.asked) > 20
    /\ Len(tbeam.returned) = 20
    /\ tbeam.returned[1] = tbeam.asked[Len(tbeam.asked) - 19]
    /\ tbeam.returned[1] # tbeam.asked[1]

---------------------------------------------------------------------------
(* The TBeam node: send_message *)

(* send_message(message) with a string of n bytes, called from the main     *)
(* flow: up to the wait loop of LoRa.send, or to the exception that         *)
(* write_packet raises, which nothing in send_message catches               *)
SendMessageOf(n) ==
    LET s == send_message_start(CallState, Data(n))
    IN  /\ pc = "idle"
        /\ now + SEND_TIMEOUT + POLL_MS <= MaxSendClock
        /\ IF s.raised
           THEN /\ FinishTBeam(s, "send_message", n, -1)
                /\ packet' = [begun |-> TRUE, bytes |-> <<>>]
                /\ UNCHANGED <<pc, waitVars>>
           ELSE /\ ApplyDriver(s)
                /\ pc' = "send_message_poll"
                /\ start_time' = now
                /\ timeout' = SEND_TIMEOUT
                /\ call' = "send_message"
                /\ writes' = s.nw
                /\ txDoneAt' = -1
                /\ packet' = [begun |-> TRUE, bytes |-> Data(n)]
                /\ UNCHANGED <<now, last>>
        /\ tbeam' = [tbeam EXCEPT !.last_send_time = now]
        /\ UNCHANGED <<want, rx>>

SendMessage == \E n \in MessageLens : SendMessageOf(n)

(* One pass of the wait loop of LoRa.send inside send_message; when send    *)
(* returns, send_message goes on to self.lora.recv() and returns the result *)
SendMessagePoll ==
    /\ pc = "send_message_poll"
    /\ \E r \in {end_packet_poll([CallState EXCEPT !.nw = writes], now - start_time, timeout)} :
          IF r.to = "sleep"
          THEN /\ ApplyDriver(r.s)
               /\ pc' = "send_message_sleep"
               /\ writes' = r.s.nw
               /\ UNCHANGED <<now, start_time, timeout, call, txDoneAt, last>>
          ELSE /\ FinishTBeam(send_message_end(r.s), "send_message", Len(packet.bytes),
                              IF r.to = "true" THEN 1 ELSE 0)
               /\ pc' = "idle"
               /\ call' = "none"
               /\ writes' = 0
               /\ UNCHANGED <<now, start_time, timeout, txDoneAt>>
    /\ UNCHANGED <<want, packet, rx, tbeam>>

SendMessageSleep ==
    /\ pc = "send_message_sleep"
    /\ pc' = "send_message_poll"
    /\ now' = now + POLL_MS
    /\ UNCHANGED <<cfg, want, regs, fifo, chipTx, start_time, timeout, call, writes, packet, rx,
                   txDoneAt, bus, tbeam, last>>

(* send_message against the transmitter *)
NextSendMessage ==
    \/ SendMessage
    \/ SendMessagePoll
    \/ SendMessageSleep
    \/ ChipTxDone

SpecSendMessage == InitTBeam /\ [][NextSendMessage]_vars

(* C33: whatever the outcome of the underlying send (success, transmit      *)
(* timeout, or rejection of a message longer than 255 bytes), the last      *)
(* mode written to the chip when send_message ends is receive-continuous.   *)
C33_SendMessageEndsInReceiveMode ==
    (pc = "idle" /\ last.op = "send_message") =>
        regs[OP_MODE] = Or(LORA_MASK, RX_CONTINUOUS)

===========================================================================
